---- MODULE Spec2Model ----
(***************************************************************************)
(* ESG engine: the record store (backend/db.py, a TinyDB table of one      *)
(* document per ticker) and the portfolio ranking computed over it         *)
(* (backend/analytics.py, rank_portfolio).                                 *)
(*                                                                         *)
(* Numbers.  Weights are integers in units of 1e-6 (0.6 is 600000),        *)
(* esg_score / environmental / social / governance in tenths (85.3 is      *)
(* 853), roic in thousandths (0.295 is 295), market_cap in 1e9.  Products  *)
(* and sums are exact in these units.  The one place where the code        *)
(* compares a computed float64 against exactly zero, the guard on the      *)
(* standard deviation, is computed on the float64 significands with IEEE   *)
(* round-to-nearest-even (F64Add, F64Div below).                           *)
(* A timestamp is <<t>>, a missing (NaN) cell is <<>>.                      *)
(***************************************************************************)
EXTENDS Integers, Sequences, FiniteSets, Bags, TLC

VARIABLES
    table,      \* ESGDB.table: the documents of 'esg_data', a bag (doc ids left out)
    now,        \* the wall clock read by datetime.now()
    argsort,    \* the build's argsort for kind='quicksort': how ties come out
    calls,      \* the rank_portfolio calls of the request being served
    http,       \* the POST /rank exchange being served: request and response
    op,         \* the store operation just performed, with the table before it
    flags,      \* the flag_controversies call being served: ticker, feed, result
    ingest,     \* the auto_ingest_portfolio_data call being served
    fmp,        \* the fetch_esg / fetch_financials call under way
    job         \* the ingest_tickers run under way: its tasks and its store handle

vars == <<table, now, argsort, calls, http, op, flags, ingest, fmp, job>>

----------------------------------------------------------------------------
(* Bounds of the model *)

MaxLines == 2       \* rows of an input DataFrame
MaxClock == 2       \* the clock stops advancing here
MaxEntries == 2     \* entries of a feed written out one by one
MaxTickers == 2     \* tickers of one ingestion

----------------------------------------------------------------------------
(* Values *)

\* tickers of the records that are stored
Tickers == {"AAPL", "MSFT", "NVDA"}

\* the ticker of the summary row
PORTFOLIO_TOTAL == "PORTFOLIO_TOTAL"

\* tickers of the portfolio lines that are ranked; rank_portfolio takes any
\* string as a ticker, the summary's label included
LineTickers == {"AAPL", "MSFT", PORTFOLIO_TOTAL}

\* 0.4, 0.5, 0.6 and 0.500005: the sums reach 1.0, 1.1 and 1.000005
Weights == {400000, 500000, 600000, 500005}

\* 1.0, the required weight sum
One == 1000000

\* np.isclose(a, b, atol=1e-6): |a - b| <= atol + rtol * |b|, rtol = 1e-5
Atol == 1
RtolInv == 100000

NaN == <<>>

Abs(x) == IF x < 0 THEN -x ELSE x

\* the records of tests/test_analytics.py (AAPL's and MSFT's values)
Profiles ==
    { [environmental |-> 855, social |-> 782, governance |-> 921,
       esg_score |-> 853, roic |-> 295, market_cap |-> 3000,
       last_updated |-> <<0>>],
      [environmental |-> 881, social |-> 825, governance |-> 893,
       esg_score |-> 866, roic |-> 245, market_cap |-> 2800,
       last_updated |-> <<0>>] }

WithTicker(t, p) ==
    [ticker |-> t, environmental |-> p.environmental, social |-> p.social,
     governance |-> p.governance, esg_score |-> p.esg_score, roic |-> p.roic,
     market_cap |-> p.market_cap, last_updated |-> p.last_updated]

Records == { WithTicker(t, p) : t \in Tickers, p \in Profiles }

AllColumns == {"ticker", "weight"}

RowsOf(cols) ==
    IF cols = {"ticker", "weight"} THEN [ticker : LineTickers, weight : Weights]
    ELSE IF cols = {"ticker"} THEN [ticker : LineTickers]
    ELSE IF cols = {"weight"} THEN [weight : Weights]
    ELSE { <<>> }

SeqsUpTo(S, n) == UNION { [1..k -> S] : k \in 0..n }

DataFrames ==
    UNION { { [columns |-> c, rows |-> r] : r \in SeqsUpTo(RowsOf(c), MaxLines) }
            : c \in SUBSET AllColumns }

----------------------------------------------------------------------------
(* backend/db.py: ESGDB *)

required_fields ==
    {"ticker", "environmental", "social", "governance",
     "esg_score", "roic", "market_cap", "last_updated"}

\* the order in which the fields are checked
required_order ==
    <<"ticker", "environmental", "social", "governance",
      "esg_score", "roic", "market_cap", "last_updated">>

\* mutant: only the ticker is required
missing_required_ticker(record) ==
    IF "ticker" \in DOMAIN record THEN <<>> ELSE <<"ticker">>

\* for field in required_fields: if field not in record: raise ...; the
\* first field found missing, none for a complete record
missing_required(record) ==
    LET missing == SelectSeq(required_order, LAMBDA f : f \notin DOMAIN record)
    IN  IF missing = <<>> THEN <<>> ELSE <<missing[1]>>

\* raise ValueError(f"Missing required field: {field}"), or nothing raised
MissingFieldError(missing) ==
    IF missing = <<>> THEN <<>>
    ELSE << [type |-> "ValueError",
             msg  |-> <<"Missing required field: ", missing[1]>>] >>

\* Table.update(fields, cond): dict.update on a matching document
UpdateDoc(doc, fields) ==
    [f \in (DOMAIN doc) \cup (DOMAIN fields) |->
        IF f \in DOMAIN fields THEN fields[f] ELSE doc[f]]

\* mutant: the record is inserted without looking for its ticker
upsert_esg_record_insert(docs, record) == docs (+) SetToBag({record})

\* self.table.upsert(record, ESG.ticker == record['ticker']): update every
\* document of that ticker, insert the record when there is none
upsert_esg_record(docs, record) ==
    LET hit  == { d \in BagToSet(docs) : d.ticker = record.ticker }
        kept == [d \in BagToSet(docs) \ hit |-> docs[d]]
        upd  == { UpdateDoc(d, record) : d \in hit }
        Copies(u) == BagCardinality([d \in { h \in hit : UpdateDoc(h, record) = u }
                                        |-> docs[d]])
    IN  IF hit # {}
        THEN kept (+) [u \in upd |-> Copies(u)]
        ELSE docs (+) SetToBag({record})

\* [dict(doc) for doc in self.table.all()]: the documents as a list
RECURSIVE get_all_records(_)
get_all_records(docs) ==
    IF BagToSet(docs) = {} THEN <<>>
    ELSE LET d == CHOOSE x \in BagToSet(docs) : TRUE
         IN  <<d>> \o get_all_records(docs (-) SetToBag({d}))

\* result = self.table.search(ESG.ticker == ticker); result[0] if result
\* else None: the document of the ticker (the first of them by document id,
\* were there several)
get_esg_record(docs, ticker) ==
    LET result == { d \in BagToSet(docs) : d.ticker = ticker }
    IN  IF result = {} THEN <<>> ELSE << CHOOSE d \in result : TRUE >>

\* self.table.remove(ESG.ticker == ticker)
delete_record(docs, t) ==
    [d \in { x \in BagToSet(docs) : x.ticker # t } |-> docs[d]]

----------------------------------------------------------------------------
(* float64 on significands.  A number is <<hi, lo>> = hi * 2^26 + lo, counted *)
(* in units of the last place of the value being averaged; a float64 keeps   *)
(* 53 significant bits.                                                      *)

LimbBase == 2 ^ 26

\* the float64 significand of the stored value: the literals 85.3, 86.6,
\* 0.295, 0.245 of the tests, and 46.2 and 0.05 as the Yahoo client ingests
\* them
Significand(col, x) ==
    IF col = "esg_score"
    THEN CASE x = 853 -> <<89443532, 53687091>>
           [] x = 866 -> <<90806681, 40265318>>
           [] x = 462 -> <<96888422, 26843546>>
    ELSE CASE x = 295 -> <<79188459, 34896609>>
           [] x = 245 -> <<131533373, 29527900>>
           [] x = 50  -> <<107374182, 26843546>>

Limbs(h, l) == <<h + (l \div LimbBase), l % LimbBase>>

\* bits beyond 53 in a number whose high limb is h
ExtraBits(h) ==
    IF h < 2 ^ 27 THEN 0 ELSE IF h < 2 ^ 28 THEN 1 ELSE IF h < 2 ^ 29 THEN 2 ELSE 3

\* round to 53 significant bits, ties to even
F64Round(x) ==
    LET u    == 2 ^ ExtraBits(x[1])
        low  == x[2] % u
        kept == x[2] - low
        odd  == (kept \div u) % 2 = 1
        up   == (2 * low > u) \/ (2 * low = u /\ odd)
    IN  Limbs(x[1], kept + (IF up THEN u ELSE 0))

F64Add(a, b) == F64Round(Limbs(a[1] + b[1], a[2] + b[2]))

\* a / n for a small integer n, the quotient having 53 bits
F64Div(a, n) ==
    LET qh == a[1] \div n
        t  == (a[1] % n) * LimbBase + a[2]
        ql == t \div n
        r  == t % n
        up == (2 * r > n) \/ (2 * r = n /\ ql % 2 = 1)
    IN  Limbs(qh, ql + (IF up THEN 1 ELSE 0))

\* 0.0 + v + v + ... (k terms), left to right
RECURSIVE F64Repeat(_, _)
F64Repeat(v, k) ==
    IF k = 0 THEN <<0, 0>> ELSE F64Add(F64Repeat(v, k - 1), v)

\* values.sum() / count over n equal values v: np.add.reduce takes the first
\* element and adds the sum of the rest
F64MeanOfEqual(v, n) == F64Div(F64Add(v, F64Repeat(v, n - 1)), n)

\* float mean minus v, in units of the last place of v
MeanError(col, x, n) ==
    LET v == Significand(col, x)
        m == F64MeanOfEqual(v, n)
    IN  IF x = 0 THEN 0
        ELSE (m[1] - v[1]) * LimbBase + (m[2] - v[2])

----------------------------------------------------------------------------
(* backend/analytics.py: rank_portfolio *)

\* {'ticker', 'weight'}.issubset(df.columns)
HasColumns(df) == {"ticker", "weight"} \subseteq df.columns

RECURSIVE SumOf(_, _)
SumOf(rows, col) ==
    IF rows = <<>> THEN 0 ELSE Head(rows)[col] + SumOf(Tail(rows), col)

RECURSIVE SumSquares(_, _)
SumSquares(rows, col) ==
    IF rows = <<>> THEN 0
    ELSE Head(rows)[col] * Head(rows)[col] + SumSquares(Tail(rows), col)

\* np.isclose(a, b, atol=1e-6), for b a multiple of RtolInv
isclose(a, b) == Abs(a - b) <= Atol + (Abs(b) \div RtolInv)

\* mutant: the tolerance of the check taken as 0.2
WeightsOk_loose(df) == Abs(SumOf(df.rows, "weight") - One) <= 200000

\* np.isclose(df['weight'].sum(), 1.0, atol=1e-6)
WeightsOk(df) == isclose(SumOf(df.rows, "weight"), One)

\* df.merge(esg_df, on='ticker', how='left'): one row per (line, matching
\* record), the lines in their order; a line with no match keeps NaN cells
RECURSIVE merge(_, _)
merge(rows, esg) ==
    IF rows = <<>> THEN <<>>
    ELSE LET line == Head(rows)
             m    == SelectSeq(esg, LAMBDA r : r.ticker = line.ticker)
         IN  (IF m = <<>>
              THEN << [line |-> line, rec |-> NaN] >>
              ELSE [i \in 1..Len(m) |-> [line |-> line, rec |-> <<m[i]>>]])
             \o merge(Tail(rows), esg)

\* mutant: no ticker is reported missing
missing_tickers_none(merged) == <<>>

\* result_df[result_df['esg_score'].isna()]['ticker'].tolist()
RECURSIVE missing_tickers(_)
missing_tickers(merged) ==
    IF merged = <<>> THEN <<>>
    ELSE (IF Head(merged).rec = NaN THEN <<Head(merged).line.ticker>> ELSE <<>>)
         \o missing_tickers(Tail(merged))

\* result_df[numeric_cols].fillna(0)
Cell(m, col) == IF m.rec = NaN THEN 0 ELSE m.rec[1][col]

\* Series.std() divides the sum of squared deviations by n - ddof, and
\* ddof is 1 unless given
ddof == 1

\* mutant: the standard deviation of a whole population (ddof = 0)
Stats_population(esg, col) ==
    LET n  == Len(esg)
        s  == SumOf(esg, col)
        ss == n * SumSquares(esg, col) - s * s
    IN  [n |-> n, sum |-> s, ss |-> ss, dof |-> n,
         err |-> IF n >= 2 /\ ss = 0 THEN MeanError(col, esg[1][col], n) ELSE 0]

\* esg_df[col].mean() and .std(): n, the sum, ss = n * sum of squares - sum^2
\* (so that the variance is ss / (n * dof)), the degrees of freedom n - ddof,
\* and the rounding error of the float mean where the exact deviation is 0
Stats(esg, col) ==
    LET n  == Len(esg)
        s  == SumOf(esg, col)
        ss == n * SumSquares(esg, col) - s * s
    IN  [n |-> n, sum |-> s, ss |-> ss, dof |-> n - ddof,
         err |-> IF n >= 2 /\ ss = 0 THEN MeanError(col, esg[1][col], n) ELSE 0]

\* esg_std > 0: std() of one record is NaN, and NaN > 0 is False
StdPositive(st) == st.n >= 2 /\ (st.ss > 0 \/ st.err # 0)

\* the literal 0 assigned when the guard fails
ZeroScore == [dev |-> 0, n |-> 1, err |-> 0, ss |-> 0, dof |-> 1]

\* (x - mean) / std, kept as its terms:
\* ((dev / n) - err ulp) / sqrt(ss / (n * dof)), and for ss = 0
\* the denominator is |err| * sqrt(n / dof) ulp
zscore(x, st) ==
    IF StdPositive(st)
    THEN [dev |-> st.n * x - st.sum, n |-> st.n, err |-> st.err, ss |-> st.ss,
          dof |-> st.dof]
    ELSE ZeroScore

IsZeroScore(z) == z.dev = 0 /\ z.err = 0

Holding(m, esgSt, roicSt) ==
    [ticker        |-> m.line.ticker,
     weight        |-> m.line.weight,
     environmental |-> Cell(m, "environmental"),
     social        |-> Cell(m, "social"),
     governance    |-> Cell(m, "governance"),
     esg_score     |-> Cell(m, "esg_score"),
     roic          |-> Cell(m, "roic"),
     market_cap    |-> Cell(m, "market_cap"),
     last_updated  |-> IF m.rec = NaN THEN NaN ELSE m.rec[1].last_updated,
     weighted_esg  |-> m.line.weight * Cell(m, "esg_score"),
     weighted_roic |-> m.line.weight * Cell(m, "roic"),
     esg_zscore    |-> zscore(Cell(m, "esg_score"), esgSt),
     roic_zscore   |-> zscore(Cell(m, "roic"), roicSt)]

\* where r goes in a block already sorted: after the rows that come before it
Position(done, r, kind) ==
    Cardinality({ i \in DOMAIN done :
        \/ done[i].esg_score > r.esg_score
        \/ done[i].esg_score = r.esg_score /\ kind = "stable" })

InsertAt(done, r, k) ==
    SubSeq(done, 1, k) \o <<r>> \o SubSeq(done, k + 1, Len(done))

\* result_df.sort_values('esg_score', ascending=False), kind='quicksort' by
\* default: descending; rows of equal esg_score keep the input order under a
\* stable argsort, and come out reversed under the other build
RECURSIVE sort_values(_, _)
sort_values(rows, kind) ==
    IF rows = <<>> THEN <<>>
    ELSE LET done == sort_values(SubSeq(rows, 1, Len(rows) - 1), kind)
             r    == rows[Len(rows)]
         IN  InsertAt(done, r, Position(done, r, kind))

\* 'last_updated': [datetime.now().isoformat()]
SummaryStamp(clock) == <<clock>>

\* mutant: the summary adds up the scores without their weights
summary_row_unweighted(holdings, clock) ==
    [ticker        |-> PORTFOLIO_TOTAL,
     weight        |-> One,
     esg_score     |-> SumOf(holdings, "esg_score"),
     roic          |-> SumOf(holdings, "roic"),
     weighted_esg  |-> SumOf(holdings, "weighted_esg"),
     weighted_roic |-> SumOf(holdings, "weighted_roic"),
     environmental |-> 0,
     social        |-> 0,
     governance    |-> 0,
     market_cap    |-> 0,
     esg_zscore    |-> ZeroScore,
     roic_zscore   |-> ZeroScore,
     last_updated  |-> SummaryStamp(clock)]

summary_row(holdings, clock) ==
    [ticker        |-> PORTFOLIO_TOTAL,
     weight        |-> One,
     esg_score     |-> SumOf(holdings, "weighted_esg"),
     roic          |-> SumOf(holdings, "weighted_roic"),
     weighted_esg  |-> SumOf(holdings, "weighted_esg"),
     weighted_roic |-> SumOf(holdings, "weighted_roic"),
     environmental |-> 0,
     social        |-> 0,
     governance    |-> 0,
     market_cap    |-> 0,
     esg_zscore    |-> ZeroScore,
     roic_zscore   |-> ZeroScore,
     last_updated  |-> SummaryStamp(clock)]

\* mutant: no explicit check, the column lookup fails instead
MissingColumnsError_lookup == [type |-> "KeyError", msg |-> "'ticker'"]

\* mutant: the message of the weight check copied to the empty-store check
NoDataError_copied == [type |-> "ValueError", msg |-> "Weights must sum to 1.0"]

\* the exception classes and messages of the three validation failures
MissingColumnsError ==
    [type |-> "ValueError",
     msg  |-> "DataFrame must contain 'ticker' and 'weight' columns"]

WeightSumError == [type |-> "ValueError", msg |-> "Weights must sum to 1.0"]

NoDataError ==
    [type |-> "ValueError",
     msg  |-> "No ESG data found in database. Run data ingestion first."]

NoError == [type |-> "", msg |-> ""]

\* the outcome of a call: the exception raised or the table returned, the
\* tickers of the warning written to stdout, and what was done to the store
Raise(exc, io) ==
    [raised |-> TRUE, exc |-> exc, rows |-> <<>>, warned |-> <<>>, io |-> io]

Return(rows, warned, io) ==
    [raised |-> FALSE, exc |-> NoError, rows |-> rows, warned |-> warned, io |-> io]

\* db = ESGDB(); try: db.get_all_records() ... finally: db.close()
StoreIo == <<"open", "get_all_records", "close">>

\* mutant: every row is stamped with the time of the call
ranked_stamped(df, esg, clock, kind) ==
    LET merged   == merge(df.rows, esg)
        esgSt    == Stats(esg, "esg_score")
        roicSt   == Stats(esg, "roic")
        holdings == [i \in DOMAIN merged |->
                        [Holding(merged[i], esgSt, roicSt)
                            EXCEPT !.last_updated = SummaryStamp(clock)]]
        sorted   == sort_values(holdings, kind)
    IN  sorted \o <<summary_row(sorted, clock)>>

\* mutant: the summary row is put in front of the holdings
ranked_summary_first(df, esg, clock, kind) ==
    LET merged   == merge(df.rows, esg)
        esgSt    == Stats(esg, "esg_score")
        roicSt   == Stats(esg, "roic")
        holdings == [i \in DOMAIN merged |-> Holding(merged[i], esgSt, roicSt)]
        sorted   == sort_values(holdings, kind)
    IN  <<summary_row(sorted, clock)>> \o sorted

\* mutant: an empty DataFrame is not noticed
IsEmpty_never(all_records) == FALSE

\* esg_df.empty
IsEmpty(all_records) == all_records = <<>>

\* mutant: the store is left empty by a call that opened it
StoreAfter_cleared(docs, io) == IF io = <<>> THEN docs ELSE EmptyBag

\* the documents of the table after the store operations of a call:
\* TinyDB(db_path) and table('esg_data') open, table.all() reads, close()
\* closes, and none of them writes a document
RECURSIVE StoreAfter(_, _)
StoreAfter(docs, io) ==
    IF io = <<>> THEN docs
    ELSE StoreAfter(CASE Head(io) = "open"            -> docs
                      [] Head(io) = "get_all_records" -> docs
                      [] Head(io) = "close"           -> docs,
                    Tail(io))

\* the caller's DataFrame after the call: df.merge() returns a new frame and
\* every column assignment is made on that result_df, df itself is only read
InputAfter(df) == df

\* the rows of the returned table: the sorted holdings, then the summary row
ranked(df, esg, clock, kind) ==
    LET merged   == merge(df.rows, esg)
        esgSt    == Stats(esg, "esg_score")
        roicSt   == Stats(esg, "roic")
        holdings == [i \in DOMAIN merged |-> Holding(merged[i], esgSt, roicSt)]
        sorted   == sort_values(holdings, kind)
    IN  sorted \o <<summary_row(sorted, clock)>>

rank_portfolio(df, docs, clock, kind) ==
    IF ~HasColumns(df) THEN Raise(MissingColumnsError, <<>>)
    ELSE IF ~WeightsOk(df) THEN Raise(WeightSumError, <<>>)
    ELSE LET all_records == get_all_records(docs)
         IN  IF IsEmpty(all_records)
             THEN Raise(NoDataError, StoreIo)
             ELSE Return(ranked(df, all_records, clock, kind),
                         missing_tickers(merge(df.rows, all_records)),
                         StoreIo)

----------------------------------------------------------------------------
(* backend/app.py: POST /rank.  An exception is [type, status_code, detail];  *)
(* a detail is the sequence of the pieces of text it is made of.  The         *)
(* rendering of the response body as JSON is left out.                        *)

\* tickers as they arrive in a request
RequestTickers == {"aapl", "MSFT"}

\* PortfolioRequest: tickers: List[str], weights: List[float]
Requests ==
    [tickers : SeqsUpTo(RequestTickers, MaxLines),
     weights : SeqsUpTo(Weights, MaxLines)]

\* t.upper()
upper(t) == IF t = "aapl" THEN "AAPL" ELSE t

\* sum(request.weights)
RECURSIVE SumSeq(_)
SumSeq(ws) == IF ws = <<>> THEN 0 ELSE Head(ws) + SumSeq(Tail(ws))

HTTPException(status_code, detail) ==
    [type |-> "HTTPException", status_code |-> status_code, detail |-> detail]

\* what str() of an HTTPException gives: "<status_code>: <detail>" where the
\* installed starlette defines __str__, the empty string where it does not
\* (the exception is built from keyword arguments)
StrStyles == {"status_and_detail", "empty"}

StatusText(status_code) ==
    CASE status_code = 400 -> "400" [] status_code = 500 -> "500"

str(e, style) ==
    IF e.type = "ValueError" THEN <<e.msg>>
    ELSE IF style = "status_and_detail"
         THEN <<StatusText(e.status_code), ": ">> \o e.detail
         ELSE <<>>

\* the except clauses of the endpoint: ValueError first, then Exception, which
\* is a base class of HTTPException too
except(e, style) ==
    IF e.type = "ValueError"
    THEN HTTPException(400, str(e, style))
    ELSE HTTPException(500, <<"Internal server error: ">> \o str(e, style))

\* the response FastAPI sends for an HTTPException that leaves the handler
ErrorResponse(e) ==
    [status |-> e.status_code, detail |-> e.detail, data |-> <<>>, summary |-> <<>>]

\* PortfolioResponse(data=holdings_data, summary=summary)
PortfolioResponse(ranked_rows) ==
    LET portfolio_row == SelectSeq(ranked_rows, LAMBDA r : r.ticker = PORTFOLIO_TOTAL)[1]
        holdings_df   == SelectSeq(ranked_rows, LAMBDA r : r.ticker # PORTFOLIO_TOTAL)
    IN  [status  |-> 200,
         detail  |-> <<>>,
         data    |-> holdings_df,
         summary |-> << [total_holdings          |-> Len(holdings_df),
                         portfolio_weighted_esg  |-> portfolio_row.weighted_esg,
                         portfolio_weighted_roic |-> portfolio_row.weighted_roic,
                         top_esg_ticker    |-> IF holdings_df = <<>> THEN <<>>
                                               ELSE <<holdings_df[1].ticker>>,
                         bottom_esg_ticker |-> IF holdings_df = <<>> THEN <<>>
                                               ELSE <<holdings_df[Len(holdings_df)].ticker>>] >>]

\* the DataFrame the endpoint builds from a request
RequestFrame(request) ==
    [columns |-> {"ticker", "weight"},
     rows    |-> [i \in 1..Len(request.tickers) |->
                     [ticker |-> upper(request.tickers[i]),
                      weight |-> request.weights[i]]]]

rank_portfolio_endpoint(request, docs, clock, kind, style) ==
    IF Len(request.tickers) # Len(request.weights)
    THEN ErrorResponse(except(
            HTTPException(400, <<"Number of tickers must match number of weights">>),
            style))
    ELSE IF Abs(SumSeq(request.weights) - One) > Atol
    THEN ErrorResponse(except(
            HTTPException(400, <<"Weights must sum to 1.0">>), style))
    ELSE LET out == rank_portfolio(RequestFrame(request), docs, clock, kind)
         IN  IF out.raised THEN ErrorResponse(except(out.exc, style))
             ELSE PortfolioResponse(out.rows)

----------------------------------------------------------------------------
(* backend/analytics.py: flag_controversies.  A feed is its format and its   *)
(* entries; an entry is [title, summary, day, link]; an XML element is        *)
(* <<[text, href, len]>> (len: the number of its child elements) and None is  *)
(* <<>>.  The texts and dates are those of tests/test_analytics.py and a few  *)
(* more; what the code computes from a text is tabulated per text.            *)

controversy_keywords ==
    <<"ESG", "cyber", "climate", "lawsuit", "litigation", "investigation",
      "violation", "penalty", "fine", "environmental", "social", "governance">>

\* controversies[:10]
FeedLimit == 10

FlagTickers == {"AAPL", "MSFT"}

\* (title, summary) of the entries
EntryTexts ==
    { <<"AAPL - Form 8-K - Environmental litigation settlement",
        "Apple Inc. settles ESG-related environmental lawsuit">>,
      <<"MSFT - Form 8-K - Quarterly earnings",
        "Microsoft reports quarterly results">>,
      <<"Form 8-K - Cyber incident", "AAPL discloses a breach">>,
      <<"AAPL discloses a breach", "Microsoft reports quarterly results">> }

\* the day of January 2025 an entry was published
Days == {10, 15, 20}

FeedEntries ==
    { [title |-> ts[1], summary |-> ts[2], day |-> d,
       link |-> "https://sec.gov/filing/123456789"] : ts \in EntryTexts, d \in Days }

\* s repeated up to n entries
Cycle(s, n) == [i \in 1..n |-> s[((i - 1) % Len(s)) + 1]]

\* the feeds: every short list of entries, and each of them repeated beyond
\* the limit of the result; in Atom or in RSS format, or not delivered, or
\* not XML
Feeds ==
    LET short == SeqsUpTo(FeedEntries, MaxEntries)
        long  == { Cycle(e, FeedLimit + 1) : e \in short \ {<<>>} }
    IN  { [format |-> f, entries |-> e] : f \in {"atom", "rss"}, e \in short \cup long }
        \cup { [format |-> f, entries |-> <<>>] : f \in {"unreachable", "malformed"} }

\* keyword.lower() in content, for the keywords of the list
KeywordsIn(text) ==
    CASE text = "AAPL - Form 8-K - Environmental litigation settlement"
            -> {"litigation", "environmental"}
      [] text = "Apple Inc. settles ESG-related environmental lawsuit"
            -> {"ESG", "lawsuit", "environmental"}
      [] text = "MSFT - Form 8-K - Quarterly earnings" -> {}
      [] text = "Microsoft reports quarterly results" -> {}
      [] text = "Form 8-K - Cyber incident" -> {"cyber"}
      [] text = "AAPL discloses a breach" -> {}
      [] text = "" -> {}

\* re.search(rf'\b{ticker}\b', content.upper()), for the tickers asked about
TickersIn(text) ==
    CASE text = "AAPL - Form 8-K - Environmental litigation settlement" -> {"AAPL"}
      [] text = "Apple Inc. settles ESG-related environmental lawsuit" -> {}
      [] text = "MSFT - Form 8-K - Quarterly earnings" -> {"MSFT"}
      [] text = "Microsoft reports quarterly results" -> {}
      [] text = "Form 8-K - Cyber incident" -> {}
      [] text = "AAPL discloses a breach" -> {"AAPL"}
      [] text = "" -> {}

\* the text of the date element: Atom's published, RSS's pubDate
DateText(format, day) ==
    IF format = "atom"
    THEN CASE day = 10 -> "2025-01-10T09:00:00Z"
           [] day = 15 -> "2025-01-15T10:00:00Z"
           [] day = 20 -> "2025-01-20T08:00:00Z"
    ELSE CASE day = 10 -> "Fri, 10 Jan 2025 09:00:00 GMT"
           [] day = 15 -> "Wed, 15 Jan 2025 10:00:00 GMT"
           [] day = 20 -> "Mon, 20 Jan 2025 08:00:00 GMT"

\* strptime of the first 19 (or 10) characters, then strftime('%Y-%m-%d');
\* when strptime fails, the first 10 characters as they are
formatted_date(date_str) ==
    CASE date_str = "" -> "Unknown"
      [] date_str = "2025-01-10T09:00:00Z" -> "2025-01-10"
      [] date_str = "2025-01-15T10:00:00Z" -> "2025-01-15"
      [] date_str = "2025-01-20T08:00:00Z" -> "2025-01-20"
      [] date_str = "Fri, 10 Jan 2025 09:00:00 GMT" -> "Fri, 10 Ja"
      [] date_str = "Wed, 15 Jan 2025 10:00:00 GMT" -> "Wed, 15 Ja"
      [] date_str = "Mon, 20 Jan 2025 08:00:00 GMT" -> "Mon, 20 Ja"

\* the place of a date string in the order of Python strings
StringRank(date) ==
    CASE date = "2025-01-10" -> 1 [] date = "2025-01-15" -> 2
      [] date = "2025-01-20" -> 3 [] date = "Fri, 10 Ja" -> 4
      [] date = "Mon, 20 Ja" -> 5 [] date = "Unknown"    -> 6
      [] date = "Wed, 15 Ja" -> 7

None == <<>>
Element(text, href) == << [text |-> text, href |-> href, len |-> 0] >>

\* entry.find('.//<ns>:<tag>', ns): the children of an Atom entry are in the
\* Atom namespace, those of an RSS item in none
find(format, entry, ns, tag) ==
    IF format = "atom" /\ ns = "atom"
    THEN CASE tag = "title"     -> Element(entry.title, "")
           [] tag = "summary"   -> Element(entry.summary, "")
           [] tag = "published" -> Element(DateText(format, entry.day), "")
           [] tag = "link"      -> Element("", entry.link)
           [] OTHER             -> None
    ELSE IF format = "rss" /\ ns = ""
    THEN CASE tag = "title"       -> Element(entry.title, "")
           [] tag = "description" -> Element(entry.summary, "")
           [] tag = "pubDate"     -> Element(DateText(format, entry.day), "")
           [] tag = "link"        -> Element(entry.link, "")
           [] OTHER               -> None
    ELSE None

\* bool(element): an Element is true when it has child elements
truth(elem) == elem # None /\ elem[1].len # 0

\* a or b
or(a, b) == IF truth(a) THEN a ELSE b

\* elem.text if elem is not None else ''
text_of(elem) == IF elem # None THEN elem[1].text ELSE ""

\* link_elem.get('href') or link_elem.text or ''
link_of(elem) ==
    IF elem = None THEN ""
    ELSE IF elem[1].href # "" THEN elem[1].href ELSE elem[1].text

\* the body of the loop over the entries: the tuple appended for an entry,
\* if any
flag_entry(ticker, format, entry) ==
    LET title_elem   == or(find(format, entry, "atom", "title"),
                           find(format, entry, "", "title"))
        summary_elem == or(find(format, entry, "atom", "summary"),
                           find(format, entry, "", "description"))
        title        == text_of(title_elem)
        summary      == text_of(summary_elem)
        found        == SelectSeq(controversy_keywords,
                            LAMBDA k : k \in KeywordsIn(title) \cup KeywordsIn(summary))
        date_elem    == or(or(find(format, entry, "atom", "published"),
                              find(format, entry, "atom", "updated")),
                           find(format, entry, "", "pubDate"))
        link_elem    == or(find(format, entry, "atom", "link"),
                           find(format, entry, "", "link"))
    IN  IF ticker \notin TickersIn(title) \cup TickersIn(summary) THEN <<>>
        ELSE IF found = <<>> THEN <<>>
        ELSE << [date  |-> formatted_date(text_of(date_elem)),
                 title |-> [title |-> title, keywords |-> found],
                 link  |-> link_of(link_elem)] >>

RECURSIVE flag_entries(_, _, _)
flag_entries(ticker, format, entries) ==
    IF entries = <<>> THEN <<>>
    ELSE flag_entry(ticker, format, Head(entries))
         \o flag_entries(ticker, format, Tail(entries))

\* controversies.sort(key=lambda x: x[0], reverse=True): descending in the
\* date string, equal dates in the order of the feed
RECURSIVE sort_by_date(_)
sort_by_date(list) ==
    IF list = <<>> THEN <<>>
    ELSE LET done == sort_by_date(SubSeq(list, 1, Len(list) - 1))
             r    == list[Len(list)]
             k    == Cardinality({ i \in DOMAIN done :
                         StringRank(done[i].date) >= StringRank(r.date) })
         IN  SubSeq(done, 1, k) \o <<r>> \o SubSeq(done, k + 1, Len(done))

flag_controversies(ticker, feed) ==
    IF feed.format \in {"unreachable", "malformed"} THEN <<>>
    ELSE LET controversies == sort_by_date(flag_entries(ticker, feed.format, feed.entries))
         IN  SubSeq(controversies, 1,
                    IF Len(controversies) < FeedLimit THEN Len(controversies)
                    ELSE FeedLimit)

\* how the wait for the lookup ends: the coroutine returns within the 30
\* seconds of future.result(timeout=30), or the wait times out first
Lookups == {"returned", "timeout"}

\* the two tuples returned from the except branch
fallback_controversies(ticker) ==
    << [date  |-> "2024-01-01",
        title |-> [title |-> IF ticker = "AAPL"
                             THEN "Controversy check failed for AAPL: "
                             ELSE "Controversy check failed for MSFT: ",
                   keywords |-> <<>>],
        link  |-> ""],
       [date  |-> "2024-01-01",
        title |-> [title |-> "Using fallback data - API may be unavailable",
                   keywords |-> <<>>],
        link  |-> ""] >>

\* sync_flag_controversies(ticker): the result of the coroutine, or the
\* fallback tuples when waiting for it raised
sync_flag_controversies(ticker, feed, lookup) ==
    IF lookup = "returned" THEN flag_controversies(ticker, feed)
    ELSE fallback_controversies(ticker)

\* get_controversy_flags(ticker): the tuples as dictionaries
get_controversy_flags(ticker, feed, lookup) ==
    LET controversies == sync_flag_controversies(upper(ticker), feed, lookup)
    IN  [status |-> 200,
         body   |-> [ticker |-> upper(ticker),
                     controversies |->
                        [k \in DOMAIN controversies |->
                            [date  |-> controversies[k].date,
                             title |-> controversies[k].title,
                             link  |-> controversies[k].link]]]]

----------------------------------------------------------------------------
(* backend/scrapers/yahoo_client.py: RobustYahooFinanceClient *)

\* the tickers handed to auto_ingest_portfolio_data
IngestTickers == {"DHFL.NS", " infy"}

\* ticker.upper().strip()
upper_strip(t) == IF t = " infy" THEN "INFY" ELSE t

\* the symbols Yahoo Finance is asked about for these tickers
Symbols == {"DHFL.NS", "HDFCBANK.NS", "DHFL.BO", "DHFL", "INFY"}

\* what Yahoo Finance has on a symbol: info with a market capitalisation,
\* info without one, no info but a price history, or nothing at all
Outcomes == {"info", "no_cap", "history", "not_found"}

\* the answers enumerated: the history-only answer for the replacement symbol
\* and for the ticker without suffix, the other three for every symbol
Yahoos ==
    { y \in [Symbols -> Outcomes] :
        \A s \in Symbols : y[s] = "history" => s \in {"HDFCBANK.NS", "INFY"} }

\* CompanyData(ticker=ticker, last_updated=datetime.now().isoformat())
CompanyData(ticker, clock) ==
    [ticker |-> ticker, market_cap |-> 0, roic |-> 0, environmental |-> 0,
     social |-> 0, governance |-> 0, esg_score |-> 0, is_delisted |-> FALSE,
     data_source |-> <<"unknown">>, last_updated |-> <<clock>>,
     error_message |-> ""]

delisted_replacements ==
    [t \in {"DHFL.NS", "YES.NS", "IL&FS.NS", "JETAIRWAYS.NS"} |->
        CASE t = "DHFL.NS"       -> "HDFCBANK.NS"
          [] t = "YES.NS"        -> "YESBANK.NS"
          [] t = "IL&FS.NS"      -> "HDFCBANK.NS"
          [] t = "JETAIRWAYS.NS" -> "INDIGO.NS"]

indian_sector_defaults ==
    [banking  |-> [environmental |-> 120, social |-> 150, governance |-> 180],
     it       |-> [environmental |-> 200, social |-> 220, governance |-> 250],
     energy   |-> [environmental |->  80, social |-> 100, governance |-> 120],
     fmcg     |-> [environmental |-> 150, social |-> 180, governance |-> 200],
     auto     |-> [environmental |-> 100, social |-> 140, governance |-> 160],
     pharma   |-> [environmental |-> 160, social |-> 190, governance |-> 210],
     telecom  |-> [environmental |-> 140, social |-> 160, governance |-> 180],
     default  |-> [environmental |-> 120, social |-> 140, governance |-> 160]]

sector_market_caps ==
    [banking |-> 50, it |-> 75, energy |-> 100, fmcg |-> 30, auto |-> 20,
     pharma |-> 25, telecom |-> 40, default |-> 10]

sector_roics ==
    [banking |-> 120, it |-> 250, energy |-> 80, fmcg |-> 180, auto |-> 100,
     pharma |-> 150, telecom |-> 60, default |-> 100]

\* the sector found in the ticker's name: 'HDFC' is in HDFCBANK, 'INFY' in
\* INFY, none of the patterns in DHFL
sector(ticker) ==
    CASE ticker = "HDFCBANK.NS" -> "banking"
      [] ticker = "INFY"        -> "it"
      [] OTHER                  -> "default"

\* ticker.endswith('.NS')
endswith_NS(ticker) == ticker \in {"DHFL.NS", "HDFCBANK.NS"}

\* ticker.endswith('.NS') or ticker.endswith('.BO')
endswith_NS_or_BO(ticker) == endswith_NS(ticker) \/ ticker = "DHFL.BO"

\* [ticker.replace('.NS', '.BO'), ticker.replace('.NS', '')]
alternatives(ticker) ==
    CASE ticker = "DHFL.NS"     -> <<"DHFL.BO", "DHFL">>
      [] ticker = "HDFCBANK.NS" -> <<"HDFCBANK.BO", "HDFCBANK">>
      [] OTHER                  -> <<ticker, ticker>>

apply_sector_defaults(ticker, result) ==
    LET s        == sector(ticker)
        defaults == indian_sector_defaults[s]
    IN  [result EXCEPT
            !.environmental = defaults.environmental,
            !.social        = defaults.social,
            !.governance    = defaults.governance,
            !.esg_score     = defaults.environmental + defaults.social
                              + defaults.governance,
            !.market_cap    = IF result.market_cap = 0
                              THEN sector_market_caps[s] ELSE @,
            !.roic          = IF result.roic = 0 THEN sector_roics[s] ELSE @]

\* _fetch_from_yahoo(ticker, result).  With info: a company of 50e9 in no
\* listed sector and without statements (roic 0.05, ESG 12/14/16 times 1.1);
\* info without any market-cap field leaves market_cap as it was (ESG
\* 12/14/16); a history alone gives 1e9 and the sector's defaults; nothing
\* at all raises ValueError
fetch_from_yahoo(ticker, result, yahoo) ==
    CASE yahoo[ticker] = "info" ->
            [raised |-> FALSE,
             result |-> [result EXCEPT !.market_cap = 50, !.roic = 50,
                            !.environmental = 132, !.social = 154,
                            !.governance = 176, !.esg_score = 462]]
      [] yahoo[ticker] = "no_cap" ->
            [raised |-> FALSE,
             result |-> [result EXCEPT !.roic = 50,
                            !.environmental = 120, !.social = 140,
                            !.governance = 160, !.esg_score = 420]]
      [] yahoo[ticker] = "history" ->
            [raised |-> FALSE,
             result |-> apply_sector_defaults(ticker,
                            [result EXCEPT !.market_cap = 1])]
      [] OTHER ->
            [raised |-> TRUE, result |-> result]

\* mutant: whatever the primary fetch returns is taken, market cap or not
primary_unchecked(ticker, result, yahoo) ==
    LET f == fetch_from_yahoo(ticker, result, yahoo)
    IN  IF f.raised
        THEN [done   |-> FALSE,
              result |-> [result EXCEPT !.error_message = "Yahoo Finance error"]]
        ELSE [done   |-> TRUE,
              result |-> [f.result EXCEPT !.data_source = <<"yahoo_finance">>]]

\* Strategy 1: the primary ticker; an exception leaves its text in
\* result.error_message
primary(ticker, result, yahoo) ==
    LET f == fetch_from_yahoo(ticker, result, yahoo)
    IN  IF f.raised
        THEN [done   |-> FALSE,
              result |-> [result EXCEPT !.error_message = "Yahoo Finance error"]]
        ELSE IF f.result.market_cap > 0
        THEN [done   |-> TRUE,
              result |-> [f.result EXCEPT !.data_source = <<"yahoo_finance">>]]
        ELSE [done |-> FALSE, result |-> f.result]

\* Strategy 2: the replacement of a delisted ticker
replacement(ticker, result, yahoo) ==
    IF ticker \notin DOMAIN delisted_replacements
    THEN [done |-> FALSE, result |-> result]
    ELSE LET replacement_ticker == delisted_replacements[ticker]
             f == fetch_from_yahoo(replacement_ticker, result, yahoo)
             r == [f.result EXCEPT
                      !.ticker      = ticker,
                      !.data_source = <<"yahoo_finance_replacement_",
                                        replacement_ticker>>,
                      !.is_delisted = TRUE]
         IN  IF f.raised THEN [done |-> FALSE, result |-> result]
             ELSE [done |-> r.market_cap > 0, result |-> r]

\* Strategy 3: for alt_ticker in alternatives
RECURSIVE alternative(_, _, _)
alternative(alts, result, yahoo) ==
    IF alts = <<>> THEN [done |-> FALSE, result |-> result]
    ELSE LET f == fetch_from_yahoo(Head(alts), result, yahoo)
         IN  IF f.raised THEN alternative(Tail(alts), result, yahoo)
             ELSE IF f.result.market_cap > 0
             THEN [done   |-> TRUE,
                   result |-> [f.result EXCEPT !.data_source =
                                  <<"yahoo_finance_alternative_", Head(alts)>>]]
             ELSE alternative(Tail(alts), f.result, yahoo)

fetch_company_data(t, clock, yahoo) ==
    LET ticker == upper_strip(t)
        s1 == primary(ticker, CompanyData(ticker, clock), yahoo)
        s2 == replacement(ticker, s1.result, yahoo)
        s3 == IF endswith_NS(ticker)
              THEN alternative(alternatives(ticker), s2.result, yahoo)
              ELSE [done |-> FALSE, result |-> s2.result]
    IN  IF s1.done THEN s1.result
        ELSE IF s2.done THEN s2.result
        ELSE IF s3.done THEN s3.result
        ELSE [apply_sector_defaults(ticker, s3.result)
                 EXCEPT !.data_source = <<"sector_defaults">>]

\* the keys of a dict filled in this order
RECURSIVE Keys(_)
Keys(s) ==
    IF s = <<>> THEN <<>>
    ELSE LET d == Keys(SubSeq(s, 1, Len(s) - 1))
         IN  IF \E i \in DOMAIN d : d[i] = s[Len(s)] THEN d
             ELSE Append(d, s[Len(s)])

\* batch_fetch(tickers): results[ticker] = fetch_company_data(ticker); no
\* step of fetch_company_data lets an exception out
batch_fetch(tickers, clock, yahoo) ==
    LET keys == Keys(tickers)
    IN  [i \in DOMAIN keys |->
            [ticker |-> keys[i],
             data   |-> fetch_company_data(keys[i], clock, yahoo)]]

\* the elements of a list that satisfy a test given as a set of indices
RECURSIVE Pick(_, _)
Pick(s, idx) ==
    IF s = <<>> THEN <<>>
    ELSE LET n == Len(s)
             front == Pick(SubSeq(s, 1, n - 1), idx)
         IN  IF n \in idx THEN Append(front, s[n]) ELSE front

get_data_quality_report(results) ==
    LET ok == { i \in DOMAIN results : results[i].data.market_cap > 0 }
        problematic == { i \in DOMAIN results :
                            \/ results[i].data.error_message # ""
                            \/ results[i].data.is_delisted }
        sources == { results[i].data.data_source : i \in DOMAIN results }
    IN  [total_tickers      |-> Len(results),
         successful_fetches |-> Cardinality(ok),
         success_rate       |-> <<Cardinality(ok), Len(results)>>,
         delisted_count     |-> Cardinality({ i \in DOMAIN results :
                                    results[i].data.is_delisted }),
         error_count        |-> Cardinality({ i \in DOMAIN results :
                                    results[i].data.error_message # "" }),
         data_sources       |-> [s \in sources |-> Cardinality(
                                    { i \in DOMAIN results :
                                        results[i].data.data_source = s })],
         problematic_tickers |-> Pick([i \in DOMAIN results |-> results[i].ticker],
                                      problematic)]

----------------------------------------------------------------------------
(* backend/analytics.py: auto_ingest_portfolio_data *)

\* the database record made from a CompanyData
ingest_record(ticker, company_data) ==
    [ticker        |-> company_data.ticker,
     environmental |-> company_data.environmental,
     social        |-> company_data.social,
     governance    |-> company_data.governance,
     esg_score     |-> company_data.esg_score,
     roic          |-> company_data.roic,
     market_cap    |-> company_data.market_cap,
     last_updated  |-> company_data.last_updated,
     data_source   |-> company_data.data_source,
     is_delisted   |-> company_data.is_delisted,
     error_message |-> company_data.error_message,
     currency      |-> IF endswith_NS_or_BO(ticker) THEN "INR" ELSE "USD",
     market        |-> IF endswith_NS_or_BO(ticker) THEN "India" ELSE "US"]

ingestion_results ==
    [successful_ingests |-> <<>>, failed_ingests |-> <<>>,
     delisted_companies |-> <<>>, updated_companies |-> <<>>,
     skipped_companies |-> <<>>, errors |-> <<>>,
     data_quality_report |-> <<>>]

\* for ticker, company_data in results.items(): a result with an error
\* message is a failed ingest, any other is upserted
RECURSIVE store_results(_, _, _, _)
store_results(results, existing_tickers, docs, report) ==
    IF results = <<>> THEN [docs |-> docs, report |-> report]
    ELSE LET ticker       == Head(results).ticker
             company_data == Head(results).data
             listed == IF ticker \in existing_tickers
                       THEN [report EXCEPT !.updated_companies = Append(@, ticker)]
                       ELSE [report EXCEPT !.successful_ingests = Append(@, ticker)]
         IN  IF company_data.error_message # ""
             THEN store_results(Tail(results), existing_tickers, docs,
                      [report EXCEPT
                          !.failed_ingests = Append(@, ticker),
                          !.errors = Append(@, <<ticker, company_data.error_message>>)])
             ELSE store_results(Tail(results), existing_tickers,
                      upsert_esg_record(docs, ingest_record(ticker, company_data)),
                      IF company_data.is_delisted
                      THEN [listed EXCEPT !.delisted_companies = Append(@, ticker)]
                      ELSE listed)

\* auto_ingest_portfolio_data(tickers, force_refresh): the new documents of
\* the store, what was fetched and the returned report
\* mutant: every ticker is fetched
needs_fetch_always(force_refresh, ticker_clean, existing_tickers) == TRUE

\* if force_refresh or ticker_clean not in existing_tickers
needs_fetch(force_refresh, ticker_clean, existing_tickers) ==
    force_refresh \/ ticker_clean \notin existing_tickers

auto_ingest_portfolio_data(tickers, force_refresh, docs, clock, yahoo) ==
    LET existing_records == get_all_records(docs)
        existing_tickers == { existing_records[i].ticker :
                                 i \in DOMAIN existing_records }
        clean   == [i \in DOMAIN tickers |-> upper_strip(tickers[i])]
        fetch   == { i \in DOMAIN clean :
                        needs_fetch(force_refresh, clean[i], existing_tickers) }
        tickers_to_fetch == Pick(clean, fetch)
        skipped == [ingestion_results EXCEPT
                       !.skipped_companies = Pick(clean, DOMAIN clean \ fetch)]
        results == batch_fetch(tickers_to_fetch, clock, yahoo)
        stored  == store_results(results, existing_tickers, docs, skipped)
    IN  IF tickers_to_fetch = <<>>
        THEN [docs |-> docs, fetched |-> <<>>, report |-> skipped]
        ELSE [docs    |-> stored.docs,
              fetched |-> results,
              report  |-> [stored.report EXCEPT !.data_quality_report =
                              <<get_data_quality_report(results)>>]]

----------------------------------------------------------------------------
(* backend/analytics.py: rank_portfolio_with_auto_ingest, and backend/app.py: *)
(* POST /rank_enhanced                                                        *)

\* tickers and weights of the requests to /rank_enhanced: the sums reach
\* 0.99, 1.0, 1.005, 1.01 and values outside 0.99 .. 1.01
EnhancedTickers == {"INFY", "DHFL.NS"}
EnhancedWeights == {490000, 500000, 505000, 520000}

EnhancedRequests ==
    [tickers : SeqsUpTo(EnhancedTickers, MaxLines),
     weights : SeqsUpTo(EnhancedWeights, MaxLines)]

\* Yahoo Finance knows every symbol, or none
EnhancedYahoos == { [s \in Symbols |-> o] : o \in {"info", "not_found"} }

\* 0.99 <= sum(request.weights) <= 1.01
LooseLow == 990000
LooseHigh == 1010000

\* list(missing_tickers): the elements of the set one after the other; the
\* order shows in the order of the ingestion report only
RECURSIVE list(_)
list(S) ==
    IF S = {} THEN <<>>
    ELSE LET x == CHOOSE y \in S : TRUE
         IN  <<x>> \o list(S \ {x})

\* return rank_portfolio(df), on the documents the ingestion has left
Ranked(df, ingested, clock, kind) ==
    [out |-> rank_portfolio(df, ingested, clock, kind), docs |-> ingested]

\* the outcome of the ranking and the documents of the store afterwards
rank_portfolio_with_auto_ingest(df, auto_ingest, docs, clock, kind, yahoo) ==
    IF ~HasColumns(df)
    THEN [out |-> Raise(MissingColumnsError, <<>>), docs |-> docs]
    ELSE IF ~WeightsOk(df)
    THEN [out |-> Raise(WeightSumError, <<>>), docs |-> docs]
    ELSE LET existing_records  == get_all_records(docs)
             existing_tickers  == { existing_records[i].ticker :
                                       i \in DOMAIN existing_records }
             portfolio_tickers == { upper(df.rows[i].ticker) : i \in DOMAIN df.rows }
             missing           == portfolio_tickers \ existing_tickers
         IN  Ranked(df,
                    IF auto_ingest /\ missing # {}
                    THEN auto_ingest_portfolio_data(list(missing), FALSE,
                                                    docs, clock, yahoo).docs
                    ELSE docs,
                    clock, kind)

\* PortfolioResponse(data=holdings_data, summary=summary) of /rank_enhanced;
\* the two averages are kept as the z-scores they are the mean of
EnhancedResponse(ranked_rows) ==
    LET portfolio_row == SelectSeq(ranked_rows, LAMBDA r : r.ticker = PORTFOLIO_TOTAL)
        holdings_df   == SelectSeq(ranked_rows, LAMBDA r : r.ticker # PORTFOLIO_TOTAL)
    IN  [status  |-> 200,
         detail  |-> <<>>,
         data    |-> holdings_df,
         summary |-> << [portfolio_esg_score |-> IF portfolio_row = <<>> THEN 0
                                                 ELSE portfolio_row[1].esg_score,
                         portfolio_roic      |-> IF portfolio_row = <<>> THEN 0
                                                 ELSE portfolio_row[1].roic,
                         total_holdings      |-> Len(holdings_df),
                         top_esg_performer    |-> IF holdings_df = <<>> THEN <<>>
                                                  ELSE <<holdings_df[1].ticker>>,
                         bottom_esg_performer |-> IF holdings_df = <<>> THEN <<>>
                                                  ELSE <<holdings_df[Len(holdings_df)].ticker>>,
                         avg_esg_zscore  |-> [i \in DOMAIN holdings_df |->
                                                 holdings_df[i].esg_zscore],
                         avg_roic_zscore |-> [i \in DOMAIN holdings_df |->
                                                 holdings_df[i].roic_zscore]] >>]

\* the return or the except clause that ends the handler
Responded(r, style) ==
    [response |-> IF r.out.raised
                  THEN ErrorResponse(except(r.out.exc, style))
                  ELSE EnhancedResponse(r.out.rows),
     docs |-> r.docs]

\* the response and the documents of the store afterwards
rank_portfolio_enhanced(request, docs, clock, kind, style, yahoo) ==
    IF Len(request.tickers) # Len(request.weights)
    THEN [response |-> ErrorResponse(except(
                HTTPException(400, <<"Tickers and weights must have same length">>),
                style)),
          docs |-> docs]
    ELSE IF ~(LooseLow <= SumSeq(request.weights) /\ SumSeq(request.weights) <= LooseHigh)
    THEN [response |-> ErrorResponse(except(
                HTTPException(400, <<"Weights must sum to approximately 1.0">>),
                style)),
          docs |-> docs]
    ELSE Responded(rank_portfolio_with_auto_ingest(RequestFrame(request), TRUE,
                                                   docs, clock, kind, yahoo),
                   style)

----------------------------------------------------------------------------
(* The record-store handles of the four functions that open one.  An event is *)
(* [ev, by]: what was done to a handle and the function that owns it.         *)

Ev(ev, by) == [ev |-> ev, by |-> by]

Tag(io, by) == [k \in DOMAIN io |-> Ev(io[k], by)]

\* mutant: db.close() after the try block, reached on a normal return only
close_on_return(by, raised) == IF raised THEN <<>> ELSE << Ev("close", by) >>

\* finally: db.close()
close_in_finally(by, raised) == << Ev("close", by) >>

\* db = ESGDB(); try: body finally: db.close()
Handle(by, body, raised) ==
    << Ev("open", by) >> \o body \o close_in_finally(by, raised)

\* the cleaned tickers that auto_ingest_portfolio_data goes on to fetch
tickers_to_fetch(tickers, force_refresh, docs) ==
    SelectSeq([i \in DOMAIN tickers |-> upper_strip(tickers[i])],
              LAMBDA t : needs_fetch(force_refresh, t,
                                     { d.ticker : d \in BagToSet(docs) }))

\* auto_ingest_portfolio_data: the early return, the return after the loop,
\* or (aborted) an exception out of validate_and_fetch_portfolio
auto_ingest_handles(tickers, force_refresh, docs, aborted) ==
    Handle("auto_ingest_portfolio_data",
           << Ev("get_all_records", "auto_ingest_portfolio_data") >>,
           aborted /\ tickers_to_fetch(tickers, force_refresh, docs) # <<>>)

\* the tickers of the portfolio that the store lacks
missing_from_store(df, docs) ==
    { upper(df.rows[i].ticker) : i \in DOMAIN df.rows }
        \ { d.ticker : d \in BagToSet(docs) }

\* rank_portfolio_with_auto_ingest: nothing is opened when the validation
\* raises; else the nested ingestion, then (unless that raised) the nested
\* ranking, whose outcome is out
with_auto_ingest_handles(df, docs, out, aborted) ==
    IF ~HasColumns(df) \/ ~WeightsOk(df) THEN <<>>
    ELSE Handle("rank_portfolio_with_auto_ingest",
                << Ev("get_all_records", "rank_portfolio_with_auto_ingest") >>
                  \o (IF missing_from_store(df, docs) # {}
                      THEN auto_ingest_handles(list(missing_from_store(df, docs)),
                                               FALSE, docs, aborted)
                      ELSE <<>>)
                  \o (IF aborted /\ missing_from_store(df, docs) # {} THEN <<>>
                      ELSE Tag(out.io, "rank_portfolio")),
                (aborted /\ missing_from_store(df, docs) # {}) \/ out.raised)

\* the handler of /rank_enhanced calls the function once its own checks pass
enhanced_called(request) ==
    /\ Len(request.tickers) = Len(request.weights)
    /\ LooseLow <= SumSeq(request.weights)
    /\ SumSeq(request.weights) <= LooseHigh

enhanced_handles(request, docs, clock, kind, yahoo, aborted) ==
    IF ~enhanced_called(request) THEN <<>>
    ELSE with_auto_ingest_handles(
             RequestFrame(request), docs,
             rank_portfolio_with_auto_ingest(RequestFrame(request), TRUE, docs,
                                             clock, kind, yahoo).out,
             aborted)

----------------------------------------------------------------------------
(* backend/scrapers/fmp_client.py: fetch_esg and fetch_financials, the same   *)
(* loop around two URLs.  A call is its position in the loop.                 *)

\* for attempt in range(5)
MaxAttempts == 5

FmpFunctions == {"fetch_esg", "fetch_financials"}

\* how one attempt ends: a 200 response with a JSON body; a 429 response; an
\* aiohttp.ClientError (no connection, or raise_for_status() on another 4xx or
\* 5xx status); an exception of another class (asyncio.TimeoutError of the
\* session timeout, a body that json() cannot decode, an OSError writing the
\* raw file)
Answers == {"ok", "429", "client_error", "other_error"}

\* mutant: the same pause after every attempt
wait_time_fixed(attempt) == 1

\* 2 ** attempt
wait_time(attempt) == 2 ^ attempt

\* the call as it begins: FMP_API_KEY is checked before any request
fmp_call(fn, key) ==
    IF ~key
    THEN [fn |-> fn, attempt |-> 0, answers |-> <<>>, slept |-> <<>>,
          pc |-> "done", outcome |-> "raised", exc |-> "ValueError"]
    ELSE [fn |-> fn, attempt |-> 0, answers |-> <<>>, slept |-> <<>>,
          pc |-> "get", outcome |-> "", exc |-> ""]

\* async with session.get(url) as response: ... and the except clause
fmp_get(f, answer) ==
    LET g == [f EXCEPT !.answers = Append(@, answer)]
    IN  CASE answer = "ok" ->
                [g EXCEPT !.pc = "done", !.outcome = "returned"]
          [] answer = "429" ->
                [g EXCEPT !.pc = "sleep"]
          [] answer = "client_error" ->
                IF f.attempt = MaxAttempts - 1
                THEN [g EXCEPT !.pc = "done", !.outcome = "raised",
                               !.exc = "ClientError"]
                ELSE [g EXCEPT !.pc = "sleep"]
          [] answer = "other_error" ->
                [g EXCEPT !.pc = "done", !.outcome = "raised", !.exc = "OtherError"]

\* await asyncio.sleep(2 ** attempt), then the next round of the loop; after
\* the last round the function raises Exception("Failed to fetch ...")
fmp_sleep(f) ==
    LET g == [f EXCEPT !.slept = Append(@, wait_time(f.attempt)),
                       !.attempt = f.attempt + 1]
    IN  IF g.attempt = MaxAttempts
        THEN [g EXCEPT !.pc = "done", !.outcome = "raised", !.exc = "Exception"]
        ELSE [g EXCEPT !.pc = "get"]

----------------------------------------------------------------------------
(* backend/ingest.py: parse_esg_data, ingest_ticker, ingest_tickers.  A JSON  *)
(* number is <<n>>, a JSON null is <<>>.  A fetch ends with "data" (a list of *)
(* one item of numbers), with "null" (the item holds a null; taken for the    *)
(* financials, the ESG item is parsed by the same float calls) or with        *)
(* "exception"; the write of an upsert is accepted ("ok") or refused          *)
(* ("error") by the disk, and a refused write leaves the file as it was.      *)

JobTickers == {"AAPL", "msft "}

\* ticker.strip().upper()
strip_upper(t) == IF t = "msft " THEN "MSFT" ELSE t

EsgOutcomes == {"data", "exception"}
FinancialsOutcomes == {"data", "null", "exception"}
DiskOutcomes == {"ok", "error"}

\* what fetch_esg returned, after ingest_ticker replaced an exception by None
esg_data_of(outcome) ==
    CASE outcome = "data" ->
           << [environmentalScore |-> <<855>>, socialScore |-> <<782>>,
               governanceScore |-> <<921>>, ESGScore |-> <<853>>] >>
      [] outcome = "exception" -> None

\* what fetch_financials returned, the same way
financials_data_of(outcome) ==
    CASE outcome = "data" ->
           << [returnOnCapitalEmployedTTM |-> <<295>>, marketCapTTM |-> <<3000>>] >>
      [] outcome = "null" ->
           << [returnOnCapitalEmployedTTM |-> <<>>, marketCapTTM |-> <<3000>>] >>
      [] outcome = "exception" -> None

\* float(x) raises TypeError for None
FloatRaises(item) == \E k \in DOMAIN item : item[k] = <<>>
float(x) == x[1]

\* mutant: the record starts with the ticker and the time only
default_record_bare(ticker, clock) ==
    [ticker |-> upper(ticker), last_updated |-> <<clock>>]

\* record = {"ticker": ticker.upper(), "environmental": 0.0, ...}
default_record(ticker, clock) ==
    [ticker |-> upper(ticker), environmental |-> 0, social |-> 0,
     governance |-> 0, esg_score |-> 0, roic |-> 0, market_cap |-> 0,
     last_updated |-> <<clock>>]

\* record.update(fields)
update(record, fields) ==
    [f \in DOMAIN record \cup DOMAIN fields |->
        IF f \in DOMAIN fields THEN fields[f] ELSE record[f]]

\* parse_esg_data(esg_data, financials_data, ticker): the record, or the
\* TypeError of a float() in it
parse_esg_data(esg_data, financials_data, ticker, clock) ==
    LET esg_fields ==
            IF esg_data = None THEN <<>>
            ELSE [environmental |-> float(esg_data[1].environmentalScore),
                  social        |-> float(esg_data[1].socialScore),
                  governance    |-> float(esg_data[1].governanceScore),
                  esg_score     |-> float(esg_data[1].ESGScore)]
        fin_fields ==
            IF financials_data = None THEN <<>>
            ELSE [roic       |-> float(financials_data[1].returnOnCapitalEmployedTTM),
                  market_cap |-> float(financials_data[1].marketCapTTM)]
    IN  IF esg_data # None /\ FloatRaises(esg_data[1])
        THEN [raised |-> TRUE, record |-> <<>>]
        ELSE IF financials_data # None /\ FloatRaises(financials_data[1])
        THEN [raised |-> TRUE, record |-> <<>>]
        ELSE [raised |-> FALSE,
              record |-> << update(update(default_record(ticker, clock),
                                          esg_fields), fin_fields) >>]

\* ingest_ticker(ticker, db) once both fetches have ended: parse, upsert; an
\* exception of either is printed and the task ends without a record
ingest_ticker(ticker, esg, fin, disk, docs, clock) ==
    LET parsed == parse_esg_data(esg_data_of(esg), financials_data_of(fin),
                                 ticker, clock)
    IN  IF parsed.raised
        THEN [docs |-> docs, pc |-> "failed", io |-> <<>>]
        ELSE IF missing_required(parsed.record[1]) # <<>>
        THEN [docs |-> docs, pc |-> "failed", io |-> <<"upsert_esg_record">>]
        ELSE IF disk = "error"
        THEN [docs |-> docs, pc |-> "failed", io |-> <<"upsert_esg_record">>]
        ELSE [docs |-> upsert_esg_record(docs, parsed.record[1]),
              pc |-> "stored", io |-> <<"upsert_esg_record">>]

\* mutant: the exception of a task goes up to the gather of ingest_tickers
propagates_failure(pc) == pc = "failed"

\* except Exception as e: print(...): no exception leaves ingest_ticker
propagates(pc) == FALSE

\* tasks = [ingest_ticker(ticker.strip().upper(), db) for ticker in tickers]
tasks_of(tickers) ==
    [i \in DOMAIN tickers |->
        [ticker |-> strip_upper(tickers[i]), pc |-> "pending",
         esg |-> "", fin |-> "", disk |-> ""]]

\* await asyncio.gather(*tasks) returns when every task has ended, and
\* raises as soon as a task raises
gather_ended(tasks) ==
    \/ \A i \in DOMAIN tasks : tasks[i].pc # "pending"
    \/ \E i \in DOMAIN tasks : propagates(tasks[i].pc)

----------------------------------------------------------------------------
(* The state machine *)

Init ==
    /\ table = EmptyBag
    /\ now = 1
    /\ argsort \in {"stable", "unstable"}
    /\ calls = <<>>
    /\ http = <<>>
    /\ op = <<>>
    /\ flags = <<>>
    /\ ingest = <<>>
    /\ fmp = <<>>
    /\ job = <<>>

\* ESGDB.upsert_esg_record(record): the field check, then the upsert
UpsertEsgRecord(record) ==
    /\ table' = IF missing_required(record) = <<>>
                THEN upsert_esg_record(table, record) ELSE table
    /\ op' = << [name   |-> "upsert_esg_record",
                 ticker |-> IF "ticker" \in DOMAIN record THEN record.ticker ELSE "",
                 record |-> record, before |-> table,
                 raised |-> MissingFieldError(missing_required(record))] >>
    /\ UNCHANGED <<now, argsort, calls, http, flags, ingest, fmp, job>>

\* ESGDB.delete_record(ticker)
DeleteRecord(t) ==
    /\ table' = delete_record(table, t)
    /\ op' = << [name |-> "delete_record", ticker |-> t, before |-> table,
                 raised |-> <<>>] >>
    /\ UNCHANGED <<now, argsort, calls, http, flags, ingest, fmp, job>>

\* time passes
Tick ==
    /\ now < MaxClock
    /\ now' = now + 1
    /\ UNCHANGED <<table, argsort, calls, http, op, flags, ingest, fmp, job>>

\* mutant: the universe read by the first call of a request is kept for the
\* calls that follow
Call_cached(df) ==
    LET docs == IF calls # <<>> THEN calls[1].before ELSE table
        out  == rank_portfolio(df, docs, now, argsort)
    IN  [df |-> df, at |-> now, out |-> out, before |-> table,
         after |-> StoreAfter(table, out.io), input |-> InputAfter(df)]

\* one invocation: db = ESGDB() and db.get_all_records() are inside the
\* function, so the documents read are those of the table at this moment
Call(df) ==
    LET out == rank_portfolio(df, table, now, argsort)
    IN  [df |-> df, at |-> now, out |-> out, before |-> table,
         after |-> StoreAfter(table, out.io), input |-> InputAfter(df)]

\* rank_portfolio(df)
RankPortfolio(df) ==
    /\ calls = <<>>
    /\ http = <<>>
    /\ calls' = <<Call(df)>>
    /\ table' = Call(df).after
    /\ op' = <<>>
    /\ UNCHANGED <<now, argsort, http, flags, ingest, fmp, job>>

\* rank_portfolio called once more with the same DataFrame, same store
RankPortfolioAgain ==
    /\ Len(calls) = 1
    /\ calls' = Append(calls, Call(calls[1].df))
    /\ table' = Call(calls[1].df).after
    /\ op' = <<>>
    /\ UNCHANGED <<now, argsort, http, flags, ingest, fmp, job>>

\* POST /rank
RankEndpoint(request, style) ==
    /\ calls = <<>>
    /\ http = <<>>
    /\ http' = << [request  |-> request,
                   response |-> rank_portfolio_endpoint(request, table, now,
                                                        argsort, style)] >>
    /\ op' = <<>>
    /\ UNCHANGED <<table, now, argsort, calls, flags, ingest, fmp, job>>

\* POST /rank_enhanced, Yahoo Finance answering as in yahoo
RankEnhanced(request, style, yahoo) ==
    /\ calls = <<>>
    /\ http = <<>>
    /\ \E r \in { rank_portfolio_enhanced(request, table, now, argsort, style, yahoo) } :
           /\ http' = << [request |-> request, response |-> r.response,
                          yahoo |-> yahoo, before |-> table,
                          io |-> enhanced_handles(request, table, now, argsort,
                                                  yahoo, FALSE)] >>
           /\ table' = r.docs
    /\ op' = <<>>
    /\ UNCHANGED <<now, argsort, calls, flags, ingest, fmp, job>>

\* flag_controversies(ticker), the feed being what the SEC server sends
FlagControversies(ticker, feed) ==
    /\ flags = <<>>
    /\ flags' = << [ticker |-> ticker, feed |-> feed,
                    result |-> flag_controversies(ticker, feed)] >>
    /\ UNCHANGED <<table, now, argsort, calls, http, op, ingest, fmp, job>>

\* auto_ingest_portfolio_data(tickers, force_refresh), Yahoo Finance answering
\* as in yahoo
AutoIngest(tickers, force_refresh, yahoo) ==
    /\ ingest = <<>>
    /\ LET out == auto_ingest_portfolio_data(tickers, force_refresh, table, now, yahoo)
       IN  /\ table' = out.docs
           /\ ingest' = << [tickers |-> tickers, force_refresh |-> force_refresh,
                            yahoo |-> yahoo, before |-> table,
                            fetched |-> out.fetched, report |-> out.report,
                            raised |-> FALSE,
                            io |-> auto_ingest_handles(tickers, force_refresh,
                                                       table, FALSE)] >>
    /\ op' = <<>>
    /\ UNCHANGED <<now, argsort, calls, http, flags, fmp, job>>

\* fetch_esg(ticker) or fetch_financials(ticker) is called
FmpCall(fn, key) ==
    /\ fmp = <<>>
    /\ fmp' = <<fmp_call(fn, key)>>
    /\ UNCHANGED <<table, now, argsort, calls, http, op, flags, ingest, job>>

\* one HTTP attempt and its end
FmpGet(answer) ==
    /\ fmp # <<>>
    /\ fmp[1].pc = "get"
    /\ fmp' = <<fmp_get(fmp[1], answer)>>
    /\ UNCHANGED <<table, now, argsort, calls, http, op, flags, ingest, job>>

\* the pause after a failed attempt is over
FmpSleep ==
    /\ fmp # <<>>
    /\ fmp[1].pc = "sleep"
    /\ fmp' = <<fmp_sleep(fmp[1])>>
    /\ UNCHANGED <<table, now, argsort, calls, http, op, flags, ingest, job>>

\* the awaiting caller has the result or the exception
FmpReturn ==
    /\ fmp # <<>>
    /\ fmp[1].pc = "done"
    /\ fmp' = <<>>
    /\ UNCHANGED <<table, now, argsort, calls, http, op, flags, ingest, job>>

\* the caller is done with the results
\* auto_ingest_portfolio_data when validate_and_fetch_portfolio raises (an
\* exception that fetch_company_data does not catch): nothing is stored and
\* the exception leaves the function through its finally clause
AutoIngestAborted(tickers, force_refresh) ==
    /\ ingest = <<>>
    /\ tickers_to_fetch(tickers, force_refresh, table) # <<>>
    /\ ingest' = << [tickers |-> tickers, force_refresh |-> force_refresh,
                     yahoo |-> <<>>, before |-> table, fetched |-> <<>>,
                     report |-> ingestion_results, raised |-> TRUE,
                     io |-> auto_ingest_handles(tickers, force_refresh,
                                                table, TRUE)] >>
    /\ op' = <<>>
    /\ UNCHANGED <<table, now, argsort, calls, http, flags, fmp, job>>

\* POST /rank_enhanced when the nested ingestion raises: the exception goes
\* through both finally clauses to the handler's except Exception
RankEnhancedAborted(request, yahoo) ==
    /\ calls = <<>>
    /\ http = <<>>
    /\ enhanced_called(request)
    /\ HasColumns(RequestFrame(request)) /\ WeightsOk(RequestFrame(request))
    /\ missing_from_store(RequestFrame(request), table) # {}
    /\ http' = << [request |-> request,
                   response |-> ErrorResponse(HTTPException(500,
                                    <<"Internal server error: ">>)),
                   yahoo |-> yahoo, before |-> table,
                   io |-> enhanced_handles(request, table, now, argsort,
                                           yahoo, TRUE)] >>
    /\ op' = <<>>
    /\ UNCHANGED <<table, now, argsort, calls, flags, ingest, fmp, job>>

\* main() returns after asyncio.run(ingest_tickers(tickers))
MainReturn ==
    /\ job # <<>> /\ job[1].pc = "done"
    /\ job' = <<>>
    /\ UNCHANGED <<table, now, argsort, calls, http, op, flags, ingest, fmp>>

\* GET /flags/{ticker}
GetControversyFlags(ticker, feed, lookup) ==
    /\ flags = <<>>
    /\ flags' = << [ticker |-> upper(ticker), feed |-> feed, lookup |-> lookup,
                    result   |-> sync_flag_controversies(upper(ticker), feed, lookup),
                    response |-> get_controversy_flags(ticker, feed, lookup)] >>
    /\ UNCHANGED <<table, now, argsort, calls, http, op, ingest, fmp, job>>

\* the tickers stored with a score, a return or a market cap other than zero
scored_tickers(docs) ==
    { d.ticker : d \in { e \in BagToSet(docs) :
                            \/ e.esg_score # 0 \/ e.environmental # 0
                            \/ e.social # 0 \/ e.governance # 0
                            \/ e.roic # 0 \/ e.market_cap # 0 } }

\* ingest_tickers(tickers) up to the gather: the store is opened, one task
\* per ticker is made
IngestTickersStart(tickers) ==
    /\ IF job = <<>> THEN TRUE ELSE job[1].pc = "done"
    /\ job' = << [tickers |-> tickers, tasks |-> tasks_of(tickers),
                  pc |-> "gather", io |-> <<"open">>,
                  before |-> scored_tickers(table)] >>
    /\ UNCHANGED <<table, now, argsort, calls, http, op, flags, ingest, fmp>>

\* task i of the gather runs from the end of its two fetches to its end
IngestTicker(i, esg, fin, disk) ==
    /\ job # <<>> /\ job[1].pc = "gather"
    /\ i \in DOMAIN job[1].tasks /\ job[1].tasks[i].pc = "pending"
    /\ ~gather_ended(job[1].tasks)
    /\ \E r \in { ingest_ticker(job[1].tasks[i].ticker, esg, fin, disk, table, now) } :
          /\ table' = r.docs
          /\ job' = << [job[1] EXCEPT
                           !.tasks[i] = [ticker |-> @.ticker, pc |-> r.pc,
                                         esg |-> esg, fin |-> fin,
                                         disk |-> IF r.io = <<>> THEN ""
                                                  ELSE disk],
                           !.io = @ \o r.io] >>
    /\ UNCHANGED <<now, argsort, calls, http, op, flags, ingest, fmp>>

\* the gather has ended: the summary is read (when the gather returned) and
\* the finally clause closes the store
IngestTickersReturn ==
    /\ job # <<>> /\ job[1].pc = "gather"
    /\ gather_ended(job[1].tasks)
    /\ job' = << [job[1] EXCEPT
                     !.pc = "done",
                     !.io = @ \o (IF \E i \in DOMAIN job[1].tasks :
                                        propagates(job[1].tasks[i].pc)
                                  THEN <<"close">>
                                  ELSE <<"get_all_records", "close">>)] >>
    /\ UNCHANGED <<table, now, argsort, calls, http, op, flags, ingest, fmp>>

Finish ==
    /\ calls # <<>> \/ http # <<>> \/ flags # <<>> \/ ingest # <<>>
    /\ calls' = <<>>
    /\ http' = <<>>
    /\ flags' = <<>>
    /\ ingest' = <<>>
    /\ UNCHANGED <<table, now, argsort, op, fmp, job>>

\* no call is being served
Idle == calls = <<>> /\ http = <<>>

Next ==
    \/ Idle /\ \E r \in Records : UpsertEsgRecord(r)
    \/ Idle /\ \E t \in Tickers : DeleteRecord(t)
    \/ Tick
    \/ Idle /\ \E df \in DataFrames : RankPortfolio(df)
    \/ RankPortfolioAgain
    \/ Idle /\ \E request \in Requests, style \in StrStyles :
                    RankEndpoint(request, style)
    \/ Finish

Spec == Init /\ [][Next]_vars

\* the controversy lookup alone
NextFlags ==
    \/ \E ticker \in FlagTickers, feed \in Feeds : FlagControversies(ticker, feed)
    \/ Finish

SpecFlags == Init /\ [][NextFlags]_vars

\* portfolios of ordinary lines that pass both checks of rank_portfolio
FreshFrames ==
    { df \in DataFrames :
        /\ HasColumns(df)
        /\ SumOf(df.rows, "weight") = One
        /\ \A k \in DOMAIN df.rows : df.rows[k].ticker # PORTFOLIO_TOTAL }

\* calls of rank_portfolio with the store written between them
NextFresh ==
    \/ Len(calls) <= 1 /\ \E r \in Records : UpsertEsgRecord(r)
    \/ Len(calls) <= 1 /\ \E t \in Tickers : DeleteRecord(t)
    \/ \E df \in FreshFrames : RankPortfolio(df)
    \/ RankPortfolioAgain
    \/ Finish

SpecFresh == Init /\ [][NextFresh]_vars

\* the enhanced ranking alone
NextEnhanced ==
    \/ Idle /\ \E request \in EnhancedRequests, style \in StrStyles,
                  yahoo \in EnhancedYahoos : RankEnhanced(request, style, yahoo)
    \/ Finish

SpecEnhanced == Init /\ [][NextEnhanced]_vars

\* a fetch alone
NextFmp ==
    \/ \E fn \in FmpFunctions, key \in BOOLEAN : FmpCall(fn, key)
    \/ \E answer \in Answers : FmpGet(answer)
    \/ FmpSleep
    \/ FmpReturn

SpecFmp == Init /\ [][NextFmp]_vars

\* every attempt ends (the session has a total timeout) and every pause ends
FairFmp ==
    /\ SpecFmp
    /\ WF_vars(\E answer \in Answers : FmpGet(answer))
    /\ WF_vars(FmpSleep)

\* the tickers written by both ingestion paths
StoreTickers == {"AAPL", "MSFT"}

\* the eight-field records of backend/ingest.py
ParsedRecords == { WithTicker(t, p) : t \in StoreTickers, p \in Profiles }

\* the thirteen-field records of auto_ingest_portfolio_data
IngestedRecords ==
    { ingest_record(t, [CompanyData(t, 1) EXCEPT
                           !.environmental = 120, !.social = 140,
                           !.governance = 160, !.esg_score = 420,
                           !.roic = 50, !.market_cap = 50,
                           !.data_source = <<"sector_defaults">>,
                           !.is_delisted = TRUE]) : t \in StoreTickers }

Without(record, fields) == [f \in DOMAIN record \ fields |-> record[f]]

\* records that lack one required field, or two of them
PartialRecords ==
    LET record == WithTicker("AAPL", CHOOSE p \in Profiles : p.roic = 295)
    IN  { Without(record, {f}) : f \in required_fields }
          \cup { Without(record, {"roic", "social"}) }

StoreRecords == ParsedRecords \cup IngestedRecords \cup PartialRecords

\* GET /flags/{ticker} alone, over feeds that answer and feeds that hang
NextSync ==
    \/ flags = <<>> /\ \E ticker \in RequestTickers, feed \in Feeds,
                           lookup \in Lookups :
                               GetControversyFlags(ticker, feed, lookup)
    \/ Finish

SpecSync == Init /\ [][NextSync]_vars

\* the command-line ingestion alone, one run after another
NextJob ==
    \/ \E tickers \in SeqsUpTo(JobTickers, MaxTickers) : IngestTickersStart(tickers)
    \/ \E i \in 1..MaxTickers, esg \in EsgOutcomes, fin \in FinancialsOutcomes,
          disk \in DiskOutcomes :
          IngestTicker(i, esg, fin, disk)
    \/ IngestTickersReturn

SpecJob == Init /\ [][NextJob]_vars

\* two-line portfolios, well formed or not
HandleFrames ==
    { df \in DataFrames :
        /\ Len(df.rows) = 2
        /\ \A k \in DOMAIN df.rows :
              "ticker" \in df.columns => df.rows[k].ticker # PORTFOLIO_TOTAL }

HandleRequests ==
    { request \in EnhancedRequests :
        /\ Len(request.tickers) = 2 /\ Len(request.weights) = 2
        /\ \A k \in DOMAIN request.weights : request.weights[k] <= 500000 }

\* no call of the four functions is under way
Quiet ==
    /\ calls = <<>> /\ http = <<>> /\ ingest = <<>> /\ job = <<>>

\* the four functions that open the store, on a store they all write
NextHandles ==
    \/ Quiet /\ \E df \in HandleFrames : RankPortfolio(df)
    \/ Quiet /\ \E tickers \in SeqsUpTo(EnhancedTickers, 1), force_refresh \in BOOLEAN,
                   yahoo \in EnhancedYahoos :
                       AutoIngest(tickers, force_refresh, yahoo)
    \/ Quiet /\ \E tickers \in SeqsUpTo(EnhancedTickers, 1), force_refresh \in BOOLEAN :
                   AutoIngestAborted(tickers, force_refresh)
    \/ Quiet /\ \E request \in HandleRequests, style \in StrStyles,
                   yahoo \in EnhancedYahoos : RankEnhanced(request, style, yahoo)
    \/ Quiet /\ \E request \in HandleRequests, yahoo \in EnhancedYahoos :
                   RankEnhancedAborted(request, yahoo)
    \/ Quiet /\ \E tickers \in SeqsUpTo(JobTickers, 1) : IngestTickersStart(tickers)
    \/ \E esg \in EsgOutcomes, fin \in FinancialsOutcomes, disk \in DiskOutcomes :
          IngestTicker(1, esg, fin, disk)
    \/ IngestTickersReturn
    \/ MainReturn
    \/ Finish

SpecHandles == Init /\ [][NextHandles]_vars

\* the store alone, written by both ingestion paths
NextStore ==
    \/ \E record \in StoreRecords : UpsertEsgRecord(record)
    \/ \E t \in StoreTickers : DeleteRecord(t)

SpecStore == Init /\ [][NextStore]_vars

\* the ingestion alone
NextIngest ==
    \/ ingest = <<>> /\ \E tickers \in SeqsUpTo(IngestTickers, MaxTickers),
                            force_refresh \in BOOLEAN, yahoo \in Yahoos :
                                AutoIngest(tickers, force_refresh, yahoo)
    \/ Finish

SpecIngest == Init /\ [][NextIngest]_vars

----------------------------------------------------------------------------
(* What the claims speak of *)

\* the rows of a returned table but the last, and the last
Holdings(out) == SubSeq(out.rows, 1, Len(out.rows) - 1)
SummaryRow(out) == out.rows[Len(out.rows)]

Count(seq, P(_)) == Cardinality({ k \in DOMAIN seq : P(seq[k]) })

\* the store holds at most one document per ticker
UniquePerTicker(docs) ==
    \A d \in BagToSet(docs) :
        /\ docs[d] = 1
        /\ \A e \in BagToSet(docs) : e.ticker = d.ticker => e = d

StoreHas(t) == \E d \in BagToSet(table) : d.ticker = t

\* the stored value of a ticker, 0 when it has no record
StoredValue(t, col) ==
    IF StoreHas(t) THEN (CHOOSE d \in BagToSet(table) : d.ticker = t)[col] ELSE 0

\* a DataFrame with both columns whose weights sum to 1.0 within 1.1e-5
BothColumns(df) == "ticker" \in df.columns /\ "weight" \in df.columns
SumsToOne(df) == Abs(SumOf(df.rows, "weight") - One) <= Atol + One \div RtolInv
ValidInput(df) == BothColumns(df) /\ SumsToOne(df)

\* C1 (as stated): a call that passes validation returns one holding row per
\* input line and exactly one row whose ticker is PORTFOLIO_TOTAL.
C1_OneRowPerLine ==
    \A i \in DOMAIN calls :
        LET c == calls[i] IN
        (~c.out.raised /\ UniquePerTicker(table)) =>
            /\ Count(c.out.rows, LAMBDA r : r.ticker # PORTFOLIO_TOTAL) = Len(c.df.rows)
            /\ Count(c.out.rows, LAMBDA r : r.ticker = PORTFOLIO_TOTAL) = 1

\* C2: a DataFrame with both columns whose weights do not sum to 1.0 within
\* tolerance is rejected with ValueError "Weights must sum to 1.0", before the
\* store is opened, with no table and no warning produced.
C2_WeightSumRejected ==
    \A i \in DOMAIN calls :
        LET c == calls[i] IN
        (BothColumns(c.df) /\ ~SumsToOne(c.df)) =>
            /\ c.out.raised
            /\ c.out.exc.type = "ValueError"
            /\ c.out.exc.msg = "Weights must sum to 1.0"
            /\ c.out.io = <<>>
            /\ c.out.rows = <<>>
            /\ c.out.warned = <<>>

\* the weights [0.6, 0.5] of the test have been rejected
C2_Witness ==
    \E i \in DOMAIN calls :
        /\ BothColumns(calls[i].df)
        /\ Len(calls[i].df.rows) = 2
        /\ calls[i].df.rows[1].weight = 600000
        /\ calls[i].df.rows[2].weight = 500000
        /\ calls[i].out.raised

\* C3 (as stated): an input with no lines, or without the 'ticker' or the
\* 'weight' column, is rejected with the missing-field error and no table.
C3_MissingFieldAsStated ==
    \A i \in DOMAIN calls :
        LET c == calls[i] IN
        (c.df.rows = <<>> \/ ~BothColumns(c.df)) =>
            /\ c.out.raised
            /\ c.out.exc.msg = "DataFrame must contain 'ticker' and 'weight' columns"
            /\ c.out.rows = <<>>

\* C3 (amended): an input without the 'ticker' or the 'weight' column is
\* rejected with the missing-field error whatever its weights are (the field
\* check comes first); an input with both columns and no lines is rejected
\* too, with the weight-sum error; neither returns a table or opens the store.
C3_MissingField ==
    \A i \in DOMAIN calls :
        LET c == calls[i] IN
        /\ ~BothColumns(c.df) =>
              /\ c.out.raised
              /\ c.out.exc.type = "ValueError"
              /\ c.out.exc.msg = "DataFrame must contain 'ticker' and 'weight' columns"
              /\ c.out.rows = <<>>
              /\ c.out.io = <<>>
        /\ (BothColumns(c.df) /\ c.df.rows = <<>>) =>
              /\ c.out.raised
              /\ c.out.exc.type = "ValueError"
              /\ c.out.exc.msg = "Weights must sum to 1.0"
              /\ c.out.rows = <<>>
              /\ c.out.io = <<>>

\* a DataFrame with a weight column only, its weights not summing to 1.0, has
\* been rejected
C3_Witness ==
    \E i \in DOMAIN calls :
        /\ calls[i].df.columns = {"weight"}
        /\ Len(calls[i].df.rows) = 2
        /\ SumOf(calls[i].df.rows, "weight") # One
        /\ calls[i].out.raised

\* C4: with no record in the store, a call with a valid non-empty portfolio
\* raises ValueError "No ESG data found ..." and returns no table.
C4_EmptyUniverseRejected ==
    \A i \in DOMAIN calls :
        LET c == calls[i] IN
        (ValidInput(c.df) /\ c.df.rows # <<>> /\ BagToSet(table) = {}) =>
            /\ c.out.raised
            /\ c.out.exc.type = "ValueError"
            /\ c.out.exc.msg = "No ESG data found in database. Run data ingestion first."
            /\ c.out.rows = <<>>

C4_Witness ==
    \E i \in DOMAIN calls :
        /\ ValidInput(calls[i].df)
        /\ Len(calls[i].df.rows) = 2
        /\ BagToSet(table) = {}
        /\ calls[i].out.raised

\* which validation fails for a DataFrame, given the store
FailureOf(df) ==
    IF ~BothColumns(df) THEN "field"
    ELSE IF ~SumsToOne(df) THEN "weights"
    ELSE IF BagToSet(table) = {} THEN "universe"
    ELSE "none"

\* C5 (as stated): two calls that fail different validations raise errors of
\* different kinds (exception classes).
C5_DistinctKinds ==
    \A i \in DOMAIN calls :
        LET c == calls[i] IN
        c.out.raised =>
            \A df2 \in DataFrames :
                LET o2 == rank_portfolio(df2, table, now, argsort) IN
                (o2.raised /\ FailureOf(df2) # FailureOf(c.df)) =>
                    o2.exc.type # c.out.exc.type

MessageOf(failure) ==
    CASE failure = "field"    -> "DataFrame must contain 'ticker' and 'weight' columns"
      [] failure = "weights"  -> "Weights must sum to 1.0"
      [] failure = "universe" -> "No ESG data found in database. Run data ingestion first."

\* C5 (amended): each of the three validation failures raises the same kind
\* of error, ValueError, with a message of its own; the message, not the
\* kind, tells which one occurred.
C5_DistinctMessages ==
    /\ \A f, g \in {"field", "weights", "universe"} :
            MessageOf(f) = MessageOf(g) => f = g
    /\ \A i \in DOMAIN calls :
            LET c == calls[i] IN
            /\ c.out.raised <=> FailureOf(c.df) # "none"
            /\ c.out.raised =>
                  /\ c.out.exc.type = "ValueError"
                  /\ c.out.exc.msg = MessageOf(FailureOf(c.df))

\* the empty-store failure has been raised, after the other two were possible
C5_Witness ==
    \E i \in DOMAIN calls :
        /\ calls[i].out.raised
        /\ FailureOf(calls[i].df) = "universe"
        /\ calls[i].out.exc.type = "ValueError"

InSeq(x, seq) == \E k \in DOMAIN seq : seq[k] = x

\* C6: in a call with a valid portfolio and a non-empty store, a line whose
\* ticker has no record does not raise: it is returned with its ticker and
\* weight, esg_score 0 and weighted_esg 0, and its ticker is in the warning.
C6_UnmatchedTicker ==
    \A i \in DOMAIN calls :
        LET c == calls[i] IN
        (ValidInput(c.df) /\ BagToSet(table) # {}) =>
            /\ ~c.out.raised
            /\ \A k \in DOMAIN c.df.rows :
                  LET line == c.df.rows[k] IN
                  ~StoreHas(line.ticker) =>
                      /\ Count(Holdings(c.out),
                               LAMBDA r : /\ r.ticker = line.ticker
                                          /\ r.weight = line.weight
                                          /\ r.esg_score = 0
                                          /\ r.weighted_esg = 0)
                           = Count(c.df.rows, LAMBDA l : l = line)
                      /\ InSeq(line.ticker, c.out.warned)

\* MSFT is ranked without a record of it, next to AAPL that has one
C6_Witness ==
    \E i \in DOMAIN calls :
        /\ ~calls[i].out.raised
        /\ Len(calls[i].df.rows) = 2
        /\ calls[i].df.rows[1].ticker = "AAPL"
        /\ calls[i].df.rows[2].ticker = "MSFT"
        /\ StoreHas("AAPL")
        /\ ~StoreHas("MSFT")
        /\ calls[i].out.warned = <<"MSFT">>

RECURSIVE SumProduct(_, _, _)
SumProduct(rows, a, b) ==
    IF rows = <<>> THEN 0
    ELSE Head(rows)[a] * Head(rows)[b] + SumProduct(Tail(rows), a, b)

RECURSIVE SumStored(_, _)
SumStored(lines, col) ==
    IF lines = <<>> THEN 0
    ELSE Head(lines).weight * StoredValue(Head(lines).ticker, col)
         + SumStored(Tail(lines), col)

ScoreOf(line) == StoredValue(line.ticker, "esg_score")

\* the place of line k in a stable descending sort of the lines
StableRank(lines, k) ==
    1 + Cardinality({ j \in DOMAIN lines :
            \/ ScoreOf(lines[j]) > ScoreOf(lines[k])
            \/ ScoreOf(lines[j]) = ScoreOf(lines[k]) /\ j < k })

\* no line carries the label of the summary row
PlainLines(df) == \A k \in DOMAIN df.rows : df.rows[k].ticker # PORTFOLIO_TOTAL

\* C8 (as stated): the holdings are non-increasing in esg_score, and holdings
\* of equal esg_score keep the order of their lines (portfolios of ordinary
\* tickers).
C8_SortedStable ==
    \A i \in DOMAIN calls :
        LET c == calls[i]
            h == Holdings(c.out)
        IN  (~c.out.raised /\ PlainLines(c.df)) =>
            /\ \A a, b \in DOMAIN h : a < b => h[a].esg_score >= h[b].esg_score
            /\ \A k \in DOMAIN c.df.rows :
                  /\ h[StableRank(c.df.rows, k)].ticker = c.df.rows[k].ticker
                  /\ h[StableRank(c.df.rows, k)].weight = c.df.rows[k].weight

AllEqual(col) ==
    \A d, e \in BagToSet(table) : d[col] = e[col]

\* C9 (as stated): when every record has the same esg_score, every holding
\* has esg_zscore 0; likewise roic and roic_zscore (portfolios of ordinary
\* tickers).
C9_ZeroVariance ==
    \A i \in DOMAIN calls :
        LET c == calls[i]
            h == Holdings(c.out)
        IN  (~c.out.raised /\ PlainLines(c.df)) =>
            /\ AllEqual("esg_score") => \A k \in DOMAIN h : IsZeroScore(h[k].esg_zscore)
            /\ AllEqual("roic") => \A k \in DOMAIN h : IsZeroScore(h[k].roic_zscore)

\* C10 (as stated): two calls with the same lines on the same store return
\* identical output, the summary row included.
C10_SameOutput ==
    Len(calls) = 2 => calls[1].out = calls[2].out

\* a table with the last_updated cell of its last row blanked
Unstamped(out) ==
    IF out.rows = <<>> THEN out
    ELSE [out EXCEPT !.rows[Len(out.rows)].last_updated = NaN]

\* C10 (amended): two calls with the same lines on the same store return
\* identical output but for the last_updated cell of the summary row, which
\* holds the time of the call.
C10_SameOutputButStamp ==
    Len(calls) = 2 =>
        /\ Unstamped(calls[1].out) = Unstamped(calls[2].out)
        /\ ~calls[2].out.raised =>
              SummaryRow(calls[2].out).last_updated = <<calls[2].at>>

\* a table has been returned twice, at different times
C10_Witness ==
    /\ Len(calls) = 2
    /\ ~calls[1].out.raised
    /\ ~calls[2].out.raised
    /\ Len(calls[1].df.rows) = 2
    /\ calls[1].at # calls[2].at

Mentions(detail, text) == \E k \in DOMAIN detail : detail[k] = text

\* the request fails the endpoint's own validation
LengthMismatch(request) == Len(request.tickers) # Len(request.weights)
WeightsOff(request) == Abs(SumSeq(request.weights) - One) > Atol

\* C11 (as stated): POST /rank answers 400 when the number of tickers differs
\* from the number of weights (detail mentions 'must match') and when the
\* weights do not sum to 1.0 (detail mentions 'must sum to 1.0').
C11_Rejected400 ==
    \A i \in DOMAIN http :
        LET x == http[i] IN
        /\ LengthMismatch(x.request) =>
              /\ x.response.status = 400
              /\ Mentions(x.response.detail,
                          "Number of tickers must match number of weights")
        /\ (~LengthMismatch(x.request) /\ WeightsOff(x.request)) =>
              /\ x.response.status = 400
              /\ Mentions(x.response.detail, "Weights must sum to 1.0")

\* the number of documents in the table
CountRecords(docs) == BagCardinality(docs)

\* C12: the store holds at most one record per ticker; an upsert of a ticker
\* that was present leaves the number of records as it was and stores the
\* new values, an upsert of a new ticker adds one record.
C12_OneRecordPerTicker ==
    /\ UniquePerTicker(table)
    /\ \A i \in DOMAIN op :
          LET o == op[i]
              present == \E d \in BagToSet(o.before) : d.ticker = o.ticker
          IN  o.name = "upsert_esg_record" =>
                /\ BagIn(o.record, table)
                /\ present => CountRecords(table) = CountRecords(o.before)
                /\ ~present => CountRecords(table) = CountRecords(o.before) + 1

\* AAPL has been ingested again, with other values, next to another ticker
C12_Witness ==
    /\ op # <<>>
    /\ op[1].name = "upsert_esg_record"
    /\ op[1].ticker = "AAPL"
    /\ \E d \in BagToSet(op[1].before) : d.ticker = "AAPL" /\ d # op[1].record
    /\ CountRecords(table) = 2

\* sums over the records of the store, whatever the portfolio is
RECURSIVE SumOver(_, _)
SumOver(docs, col) ==
    IF docs = {} THEN 0
    ELSE LET d == CHOOSE x \in docs : TRUE
         IN  d[col] + SumOver(docs \ {d}, col)

RECURSIVE SumSquaresOver(_, _)
SumSquaresOver(docs, col) ==
    IF docs = {} THEN 0
    ELSE LET d == CHOOSE x \in docs : TRUE
         IN  d[col] * d[col] + SumSquaresOver(docs \ {d}, col)

\* N * (sum of squared deviations from the mean) over the store
Spread(col) ==
    Cardinality(BagToSet(table)) * SumSquaresOver(BagToSet(table), col)
        - SumOver(BagToSet(table), col) * SumOver(BagToSet(table), col)

\* z is (x - m) / s for the mean m over the store and the standard deviation
\* s = sqrt(sum of squared deviations / dof)
IsZScore(z, x, col, dof) ==
    /\ z.n = Cardinality(BagToSet(table))
    /\ z.dev = z.n * x - SumOver(BagToSet(table), col)
    /\ z.ss = Spread(col)
    /\ z.dof = dof
    /\ z.err = 0

\* C13 (as stated): with a non-zero standard deviation of the universe, every
\* holding's z-score is (value - m) / s with s the population standard
\* deviation (the squared deviations divided by N) over all records.
C13_PopulationZScore ==
    \A i \in DOMAIN calls :
        LET c == calls[i]
            h == Holdings(c.out)
            N == Cardinality(BagToSet(table))
        IN  (~c.out.raised /\ PlainLines(c.df)) =>
            /\ Spread("esg_score") > 0 =>
                  \A k \in DOMAIN h :
                      IsZScore(h[k].esg_zscore, h[k].esg_score, "esg_score", N)
            /\ Spread("roic") > 0 =>
                  \A k \in DOMAIN h :
                      IsZScore(h[k].roic_zscore, h[k].roic, "roic", N)

\* C13 (amended): with a non-zero standard deviation of the universe, every
\* holding's z-score is (value - m) / s with m the mean and s the sample
\* standard deviation (the squared deviations divided by N - 1) over all
\* records of the store, whatever tickers the portfolio holds; the value of
\* a holding without a record is 0.
C13_SampleZScore ==
    \A i \in DOMAIN calls :
        LET c == calls[i]
            h == Holdings(c.out)
            N == Cardinality(BagToSet(table))
        IN  ~c.out.raised =>
            /\ Spread("esg_score") > 0 =>
                  \A k \in DOMAIN h :
                      IsZScore(h[k].esg_zscore, h[k].esg_score, "esg_score", N - 1)
            /\ Spread("roic") > 0 =>
                  \A k \in DOMAIN h :
                      IsZScore(h[k].roic_zscore, h[k].roic, "roic", N - 1)

\* AAPL, held twice, is ranked against a store of three records with two
\* scores
C13_Witness ==
    \E i \in DOMAIN calls :
        /\ ~calls[i].out.raised
        /\ Len(calls[i].df.rows) = 2
        /\ \A k \in 1..2 : calls[i].df.rows[k].ticker = "AAPL"
        /\ Cardinality(BagToSet(table)) = 3
        /\ Spread("esg_score") > 0
        /\ Holdings(calls[i].out)[1].esg_zscore.dev # 0
        /\ Holdings(calls[i].out)[1].esg_zscore.dof = 2

\* the day a returned date string stands for
DayOf(date) ==
    CASE date = "2025-01-10" -> 10 [] date = "2025-01-15" -> 15
      [] date = "2025-01-20" -> 20 [] date = "Fri, 10 Ja" -> 10
      [] date = "Wed, 15 Ja" -> 15 [] date = "Mon, 20 Ja" -> 20

\* C14 (as stated): flag_controversies returns at most 10 tuples, ordered
\* most recent first by date.
C14_CappedRecentFirst ==
    \A i \in DOMAIN flags :
        LET r == flags[i].result IN
        /\ Len(r) <= 10
        /\ \A a, b \in DOMAIN r : a < b => DayOf(r[a].date) >= DayOf(r[b].date)

\* the entry mentions the ticker and holds a controversy keyword
Relevant(ticker, entry) ==
    /\ ticker \in TickersIn(entry.title) \cup TickersIn(entry.summary)
    /\ KeywordsIn(entry.title) \cup KeywordsIn(entry.summary) # {}

\* C15 (as stated): given an Atom feed (of at most 10 entries), the result
\* has one tuple for each entry that mentions the ticker and holds a keyword,
\* carrying the entry's published day as YYYY-MM-DD and the entry's title.
C15_AtomEntriesFlagged ==
    \A i \in DOMAIN flags :
        LET f == flags[i]
            relevant == SelectSeq(f.feed.entries, LAMBDA e : Relevant(f.ticker, e))
        IN  (f.feed.format = "atom" /\ Len(f.feed.entries) <= 10) =>
            /\ Len(f.result) = Len(relevant)
            /\ \A e \in { relevant[k] : k \in DOMAIN relevant } :
                  \E k \in DOMAIN f.result :
                      /\ f.result[k].title.title = e.title
                      /\ f.result[k].date = formatted_date(DateText("atom", e.day))

\* a result obtained by one of the fallback strategies
Fallback(company_data) ==
    company_data.data_source[1] \in {"yahoo_finance_replacement_",
                                     "yahoo_finance_alternative_",
                                     "sector_defaults"}

\* the store holds the record made from this result
Stored(company_data) ==
    \E doc \in BagToSet(table) :
        /\ doc.ticker = company_data.ticker
        /\ doc.data_source = company_data.data_source
        /\ doc.market_cap = company_data.market_cap
        /\ doc.esg_score = company_data.esg_score
        /\ doc.last_updated = company_data.last_updated

\* C16: after auto_ingest_portfolio_data, every fetched ticker whose data
\* came by a fallback strategy (replacement ticker, alternate suffix, sector
\* defaults) has its record in the store and is listed under
\* successful_ingests or updated_companies, not under failed_ingests
C16_FallbackStored ==
    \A i \in DOMAIN ingest : \A k \in DOMAIN ingest[i].fetched :
        LET ticker == ingest[i].fetched[k].ticker
            data   == ingest[i].fetched[k].data
            report == ingest[i].report
        IN  Fallback(data) =>
                /\ Stored(data)
                /\ \/ InSeq(ticker, report.successful_ingests)
                   \/ InSeq(ticker, report.updated_companies)
                /\ ~InSeq(ticker, report.failed_ingests)

\* C17: rank_portfolio has no side effect: after a call, returning or
\* raising, the store holds exactly the documents it held before the call
\* and the caller's DataFrame is the one that was passed
C17_NoSideEffect ==
    \A k \in DOMAIN calls :
        /\ calls[k].after = calls[k].before
        /\ table = calls[k].before
        /\ calls[k].input = calls[k].df

\* a call that returned a table with a warning, read from a store of two
\* records, followed by a second call
C17_Witness ==
    /\ Len(calls) = 2
    /\ ~calls[1].out.raised
    /\ calls[1].out.warned # <<>>
    /\ calls[1].out.io = StoreIo
    /\ BagCardinality(calls[1].before) = 2
    /\ Len(calls[1].df.rows) = 2

\* N * (sum of squared deviations from the mean) over the documents docs
SpreadOf(docs, col) ==
    Cardinality(BagToSet(docs)) * SumSquaresOver(BagToSet(docs), col)
        - SumOver(BagToSet(docs), col) * SumOver(BagToSet(docs), col)

\* the holding h is the join of its line with the documents docs: the
\* values of the document of its ticker, or zeros and a warning
JoinedFrom(h, docs, warned) ==
    \/ \E d \in BagToSet(docs) :
          /\ d.ticker = h.ticker
          /\ h.esg_score = d.esg_score
          /\ h.roic = d.roic
          /\ h.market_cap = d.market_cap
          /\ h.last_updated = d.last_updated
    \/ /\ \A d \in BagToSet(docs) : d.ticker # h.ticker
       /\ h.esg_score = 0
       /\ h.roic = 0
       /\ InSeq(h.ticker, warned)

\* the z-score z of the value x is taken against the documents docs
ScoredFrom(z, x, docs, col) ==
    /\ Cardinality(BagToSet(docs)) = 1 => IsZeroScore(z)
    /\ SpreadOf(docs, col) > 0 =>
          /\ z.n = Cardinality(BagToSet(docs))
          /\ z.dev = z.n * x - SumOver(BagToSet(docs), col)
          /\ z.ss = SpreadOf(docs, col)

\* C18: every call of rank_portfolio works on the documents the store holds
\* at the time of that call: it raises for an empty store exactly when the
\* store is empty then, each holding is joined with the documents of then,
\* and the z-scores are taken against the documents of then, store writes
\* between two calls included
C18_ReadsFresh ==
    \A i \in DOMAIN calls :
        LET c    == calls[i]
            docs == c.before
        IN  /\ c.out.raised <=> docs = EmptyBag
            /\ ~c.out.raised =>
                  \A k \in DOMAIN Holdings(c.out) :
                      LET h == Holdings(c.out)[k]
                      IN  /\ JoinedFrom(h, docs, c.out.warned)
                          /\ ScoredFrom(h.esg_zscore, h.esg_score, docs, "esg_score")
                          /\ ScoredFrom(h.roic_zscore, h.roic, docs, "roic")

\* two returning calls with the same portfolio; between them one ticker was
\* deleted and another one upserted with new values, and the first holding
\* comes out with another score and another z-score
C18_Witness ==
    /\ Len(calls) = 2
    /\ ~calls[1].out.raised
    /\ ~calls[2].out.raised
    /\ \E d \in BagToSet(calls[1].before) :
          \A e \in BagToSet(calls[2].before) : e.ticker # d.ticker
    /\ \E d \in BagToSet(calls[1].before), e \in BagToSet(calls[2].before) :
          d.ticker = e.ticker /\ d.esg_score # e.esg_score
    /\ SpreadOf(calls[1].before, "esg_score") > 0
    /\ SpreadOf(calls[2].before, "esg_score") > 0
    /\ calls[1].out.rows[1].esg_zscore # calls[2].out.rows[1].esg_zscore
    /\ table = calls[2].before

\* the last row carries the label and the weight of the summary, and with
\* ordinary lines no row before it carries the label
SummaryLast(c) ==
    /\ c.out.rows # <<>>
    /\ SummaryRow(c.out).ticker = PORTFOLIO_TOTAL
    /\ SummaryRow(c.out).weight = One
    /\ PlainLines(c.df) =>
          \A k \in DOMAIN Holdings(c.out) : Holdings(c.out)[k].ticker # PORTFOLIO_TOTAL

\* the fields of the summary row that are set to the literal 0
LiteralZeros(s) ==
    /\ s.environmental = 0
    /\ s.social = 0
    /\ s.governance = 0
    /\ s.market_cap = 0
    /\ IsZeroScore(s.esg_zscore)
    /\ IsZeroScore(s.roic_zscore)

\* C19 (as stated): in the summary row every numeric field other than
\* weight, esg_score and roic is 0, weighted_esg and weighted_roic
\* included, and the summary row is the last row of the returned table.
C19_OthersZero ==
    \A i \in DOMAIN calls :
        LET c == calls[i]
            s == SummaryRow(c.out)
        IN  ~c.out.raised =>
            /\ SummaryLast(c)
            /\ LiteralZeros(s)
            /\ s.weighted_esg = 0
            /\ s.weighted_roic = 0

\* C19 (amended): in the summary row environmental, social, governance,
\* market_cap, esg_zscore and roic_zscore are 0, weighted_esg and
\* weighted_roic hold the same sums as esg_score and roic, and the summary
\* row is the last row of the returned table.
C19_SummaryZeroed ==
    \A i \in DOMAIN calls :
        LET c == calls[i]
            s == SummaryRow(c.out)
        IN  ~c.out.raised =>
            /\ SummaryLast(c)
            /\ LiteralZeros(s)
            /\ s.weighted_esg = s.esg_score
            /\ s.weighted_roic = s.roic

\* two stored holdings with non-zero pillar scores and z-scores, and a
\* summary row whose sums are not 0
C19_Witness ==
    \E i \in DOMAIN calls :
        /\ ~calls[i].out.raised
        /\ Len(calls[i].out.rows) = 3
        /\ PlainLines(calls[i].df)
        /\ \A k \in 1..2 :
              /\ calls[i].out.rows[k].environmental # 0
              /\ calls[i].out.rows[k].market_cap # 0
              /\ ~IsZeroScore(calls[i].out.rows[k].esg_zscore)
        /\ SummaryRow(calls[i].out).weighted_esg # 0
        /\ SummaryRow(calls[i].out).weighted_roic # 0

\* C20: rank_portfolio rejects, with the weight-sum error, every portfolio
\* whose weights differ from 1.0 in sum by more than 1e-6, the bound of the
\* /rank endpoint's own check (here for ordinary lines and a store that
\* holds records).
C20_SameTolerance ==
    \A i \in DOMAIN calls :
        LET c == calls[i]
        IN  (/\ BothColumns(c.df)
             /\ PlainLines(c.df)
             /\ c.before # EmptyBag
             /\ Abs(SumOf(c.df.rows, "weight") - One) > Atol) =>
                /\ c.out.raised
                /\ c.out.exc = WeightSumError

\* C21: a request to /rank_enhanced with as many weights as tickers whose
\* weights sum to a value in 0.99 .. 1.01 is not rejected for its weight
\* sum, and it is ranked whenever the store holds a record afterwards.
C21_LooseTolerance ==
    \A i \in DOMAIN http :
        LET request  == http[i].request
            response == http[i].response
            s        == SumSeq(request.weights)
        IN  (/\ Len(request.tickers) = Len(request.weights)
             /\ LooseLow <= s
             /\ s <= LooseHigh) =>
                /\ ~Mentions(response.detail, "Weights must sum to 1.0")
                /\ ~Mentions(response.detail, "Weights must sum to approximately 1.0")
                /\ table # EmptyBag => response.status = 200

\* Yahoo Finance has a market capitalisation, or at least a price history,
\* for the symbol: a fetch of it yields market_cap > 0
Yields(yahoo, symbol) == yahoo[symbol] \in {"info", "history"}

\* the first strategy, in the order primary, replacement, alternates, that
\* yields a market capitalisation for the ticker; the sector defaults if none
FirstYielding(yahoo, ticker) ==
    IF Yields(yahoo, ticker) THEN <<"yahoo_finance">>
    ELSE IF /\ ticker \in DOMAIN delisted_replacements
            /\ Yields(yahoo, delisted_replacements[ticker])
    THEN <<"yahoo_finance_replacement_", delisted_replacements[ticker]>>
    ELSE IF endswith_NS(ticker) /\ Yields(yahoo, alternatives(ticker)[1])
    THEN <<"yahoo_finance_alternative_", alternatives(ticker)[1]>>
    ELSE IF endswith_NS(ticker) /\ Yields(yahoo, alternatives(ticker)[2])
    THEN <<"yahoo_finance_alternative_", alternatives(ticker)[2]>>
    ELSE <<"sector_defaults">>

Retried(f) ==
    /\ Len(f.answers) <= MaxAttempts
    /\ \A k \in DOMAIN f.answers :
          k < Len(f.answers) => f.answers[k] \in {"429", "client_error"}
    /\ \A k \in DOMAIN f.slept : f.slept[k] = 2 ^ (k - 1)
    /\ Len(f.slept) \in {Len(f.answers) - 1, Len(f.answers)}
    /\ Len(f.slept) <= Len(f.answers)

\* C23 (as stated): a call of fetch_esg or fetch_financials that has ended
\* has returned the data of its first successful response, or has raised
\* after five failed attempts.
C23_ReturnsOrFiveAttempts ==
    \A i \in DOMAIN fmp :
        LET f == fmp[i]
        IN  f.pc = "done" =>
                \/ f.outcome = "returned" /\ f.answers[Len(f.answers)] = "ok"
                \/ f.outcome = "raised" /\ Len(f.answers) = MaxAttempts

\* the ways a call ends
EndsOf(f) ==
    \/ /\ f.outcome = "returned"
       /\ f.answers[Len(f.answers)] = "ok"
    \/ /\ f.outcome = "raised" /\ f.exc = "ValueError"
       /\ f.answers = <<>>
    \/ /\ f.outcome = "raised" /\ f.exc = "OtherError"
       /\ f.answers[Len(f.answers)] = "other_error"
    \/ /\ f.outcome = "raised" /\ f.exc = "ClientError"
       /\ Len(f.answers) = MaxAttempts
       /\ f.answers[MaxAttempts] = "client_error"
       /\ Len(f.slept) = MaxAttempts - 1
    \/ /\ f.outcome = "raised" /\ f.exc = "Exception"
       /\ Len(f.answers) = MaxAttempts
       /\ f.answers[MaxAttempts] = "429"
       /\ Len(f.slept) = MaxAttempts

BoundedRetry ==
    \A i \in DOMAIN fmp :
        /\ Retried(fmp[i])
        /\ fmp[i].pc = "done" => EndsOf(fmp[i])

\* C23 (amended): a call makes at most 5 HTTP attempts; an attempt that ends
\* in a 429 or a ClientError is followed by a pause of 2 ^ attempt seconds
\* and, but for the fifth, by the next attempt; the call always ends: it
\* returns the data of the first successful response, raises at once
\* without a request when the API key is missing, raises at once on an
\* exception that is not a ClientError, raises the ClientError of the fifth
\* attempt, or raises after the pause that follows a fifth 429.
C23_BoundedRetry ==
    /\ []BoundedRetry
    /\ (fmp # <<>>) ~> (fmp # <<>> /\ fmp[1].pc = "done")

\* four failed attempts, 429 and ClientError mixed, with pauses of 1, 2, 4
\* and 8 seconds, and a fifth that succeeded
C23_Witness ==
    /\ fmp # <<>>
    /\ fmp[1].answers = <<"429", "client_error", "429", "client_error", "ok">>
    /\ fmp[1].slept = <<1, 2, 4, 8>>
    /\ fmp[1].outcome = "returned"


\* the last store operation was upsert_esg_record(r) and returned
Upserted(o) ==
    o.name = "upsert_esg_record" /\ required_fields \subseteq DOMAIN o.record

\* the documents of the tickers other than t
Others(docs, t) == { d \in BagToSet(docs) : d.ticker # t }

\* C24 (as stated): after upsert_esg_record(r) succeeds, get_esg_record of
\* r's ticker returns a record equal to r, and the records of all other
\* tickers are unchanged
C24_ReadsBackEqual ==
    \A i \in DOMAIN op :
        Upserted(op[i]) =>
            /\ get_esg_record(table, op[i].ticker) = << op[i].record >>
            /\ Others(table, op[i].ticker) = Others(op[i].before, op[i].ticker)

\* the last store operation was upsert_esg_record of a record that lacks a
\* required field
UpsertedPartial(o) ==
    o.name = "upsert_esg_record" /\ ~(required_fields \subseteq DOMAIN o.record)

\* C25: upsert_esg_record of a record that lacks a required field raises a
\* ValueError (naming a required field the record lacks) and leaves the
\* store unchanged
C25_MissingFieldRejected ==
    \A i \in DOMAIN op :
        UpsertedPartial(op[i]) =>
            /\ op[i].raised # <<>>
            /\ op[i].raised[1].type = "ValueError"
            /\ op[i].raised[1].msg[2] \in required_fields \ DOMAIN op[i].record
            /\ table = op[i].before

\* a record without roic was refused while the store held a record
C25_Witness ==
    \E i \in DOMAIN op :
        /\ UpsertedPartial(op[i])
        /\ "roic" \notin DOMAIN op[i].record
        /\ "ticker" \in DOMAIN op[i].record
        /\ op[i].raised # <<>>
        /\ op[i].before # EmptyBag
        /\ table = op[i].before


\* the tickers of an ingestion as the function cleans them
Cleaned(g) == [i \in DOMAIN g.tickers |-> upper_strip(g.tickers[i])]

\* the four lists of the report that say what became of a ticker
Fates == {"skipped_companies", "successful_ingests",
          "updated_companies", "failed_ingests"}

Occurrences(seq, t) == Cardinality({ k \in DOMAIN seq : seq[k] = t })

Distinct(seq) == \A i, j \in DOMAIN seq : seq[i] = seq[j] => i = j

DocsOf(docs, t) == [d \in { e \in BagToSet(docs) : e.ticker = t } |-> docs[d]]

\* C26: when auto_ingest_portfolio_data returns for distinct tickers, every
\* requested ticker (upper-cased, stripped) is in exactly one of
\* skipped_companies, successful_ingests, updated_companies and
\* failed_ingests, once; with force_refresh false a ticker already in the
\* store is in skipped_companies only and its stored record is unchanged
C26_OneFate ==
    \A i \in DOMAIN ingest :
        LET g == ingest[i]
            clean == Cleaned(g)
            In(f, t) == Occurrences(g.report[f], t) > 0
        IN  Distinct(clean) =>
              \A k \in DOMAIN clean :
                /\ Cardinality({ f \in Fates : In(f, clean[k]) }) = 1
                /\ \A f \in Fates : Occurrences(g.report[f], clean[k]) <= 1
                /\ (~g.force_refresh /\ DocsOf(g.before, clean[k]) # EmptyBag) =>
                       /\ In("skipped_companies", clean[k])
                       /\ DocsOf(table, clean[k]) = DocsOf(g.before, clean[k])

\* an ingestion without force_refresh of two tickers, one stored before and
\* skipped, the other fetched and stored
C26_Witness ==
    \E i \in DOMAIN ingest :
        LET g == ingest[i]
            clean == Cleaned(g)
        IN  /\ ~g.force_refresh /\ Len(clean) = 2 /\ Distinct(clean)
            /\ \E k \in DOMAIN clean :
                   /\ DocsOf(g.before, clean[k]) # EmptyBag
                   /\ Occurrences(g.report.skipped_companies, clean[k]) = 1
            /\ \E k \in DOMAIN clean :
                   /\ DocsOf(g.before, clean[k]) = EmptyBag
                   /\ Occurrences(g.report.successful_ingests, clean[k]) = 1
                   /\ DocsOf(table, clean[k]) # EmptyBag


\* the tuple comes from an entry of the feed that mentions the ticker and
\* holds a controversy keyword
FromFeed(ticker, feed, tuple) ==
    \E k \in DOMAIN feed.entries :
        /\ Relevant(ticker, feed.entries[k])
        /\ tuple.title.title = feed.entries[k].title
        /\ tuple.link = feed.entries[k].link

\* C30 (as stated): every tuple returned by sync_flag_controversies, and
\* every controversy returned by GET /flags/{ticker}, comes from a feed entry
\* that mentions the ticker and a controversy keyword, also when the lookup
\* fails or times out
C30_OnlyFeedEntries ==
    \A i \in DOMAIN flags :
        LET f == flags[i] IN
        /\ \A k \in DOMAIN f.result : FromFeed(f.ticker, f.feed, f.result[k])
        /\ \A k \in DOMAIN f.response.body.controversies :
               FromFeed(f.ticker, f.feed, f.response.body.controversies[k])


\* the number of records the store holds for a ticker
RecordsOf(docs, t) == BagCardinality(DocsOf(docs, t))

\* the events of a handle after which nothing may follow
Closed(io) == \E k \in DOMAIN io : io[k] = "close"

\* C28: in ingest_tickers the tasks run interleaved over one store handle; a
\* task that fails leaves the others running: the store is closed only after
\* every task has ended, and when ingest_tickers completes every requested
\* ticker whose own task did not fail has exactly one record
C28_FailuresIsolated ==
    \A n \in DOMAIN job :
        LET j == job[n] IN
        /\ (Closed(j.io) \/ j.pc = "done") =>
               /\ \A i \in DOMAIN j.tasks : j.tasks[i].pc # "pending"
               /\ j.io[Len(j.io)] = "close"
               /\ Cardinality({ k \in DOMAIN j.io : j.io[k] = "close" }) = 1
        /\ j.pc = "done" =>
               \A i \in DOMAIN j.tasks :
                   j.tasks[i].pc # "failed" =>
                       RecordsOf(table, j.tasks[i].ticker) = 1

\* a run of two tickers has completed: the task of one failed, the other
\* ticker, not stored before the run, has its record
C28_Witness ==
    \E n \in DOMAIN job :
        LET j == job[n] IN
        /\ j.pc = "done" /\ Len(j.tasks) = 2
        /\ j.tasks[1].ticker # j.tasks[2].ticker
        /\ \E a, b \in DOMAIN j.tasks :
               /\ j.tasks[a].pc = "failed"
               /\ RecordsOf(table, j.tasks[a].ticker) = 0
               /\ j.tasks[b].pc = "stored"
               /\ RecordsOf(table, j.tasks[b].ticker) = 1

\* task i has ended and is the only task of the run for its ticker
EndedAlone(j, i) ==
    /\ j.tasks[i].pc # "pending"
    /\ \A k \in DOMAIN j.tasks : j.tasks[k].ticker = j.tasks[i].ticker => k = i

\* the record of the ticker of task i has 0.0 in every field the failed
\* fetches would supply
ZerosStored(j, i) ==
    /\ RecordsOf(table, j.tasks[i].ticker) = 1
    /\ \A d \in DOMAIN DocsOf(table, j.tasks[i].ticker) :
          /\ j.tasks[i].esg = "exception" =>
                 /\ d.environmental = 0 /\ d.social = 0
                 /\ d.governance = 0 /\ d.esg_score = 0
          /\ j.tasks[i].fin = "exception" =>
                 /\ d.roic = 0 /\ d.market_cap = 0

RECURSIVE WellClosed(_, _)
WellClosed(trace, stack) ==
    IF trace = <<>> THEN stack = <<>>
    ELSE IF Head(trace).ev = "open"
    THEN WellClosed(Tail(trace), << Head(trace).by >> \o stack)
    ELSE /\ stack # <<>>
         /\ stack[1] = Head(trace).by
         /\ WellClosed(Tail(trace),
                       IF Head(trace).ev = "close" THEN Tail(stack) ELSE stack)

Opened(trace, by) == \E k \in DOMAIN trace : trace[k] = Ev("open", by)

\* C27: every record-store handle opened by rank_portfolio,
\* auto_ingest_portfolio_data, rank_portfolio_with_auto_ingest and
\* ingest_tickers is closed when the function that opened it has returned or
\* raised, on every exit path
C27_HandlesClosed ==
    /\ \A i \in DOMAIN calls :
          WellClosed(Tag(calls[i].out.io, "rank_portfolio"), <<>>)
    /\ \A i \in DOMAIN ingest : WellClosed(ingest[i].io, <<>>)
    /\ \A i \in DOMAIN http : WellClosed(http[i].io, <<>>)
    /\ \A i \in DOMAIN job :
          job[i].pc = "done" => WellClosed(Tag(job[i].io, "ingest_tickers"), <<>>)

\* the nested ingestion of rank_portfolio_with_auto_ingest raised with both
\* handles open, and both were closed
C27_Witness ==
    \E i \in DOMAIN http :
        /\ http[i].response.status = 500
        /\ Opened(http[i].io, "rank_portfolio_with_auto_ingest")
        /\ Opened(http[i].io, "auto_ingest_portfolio_data")
        /\ ~Opened(http[i].io, "rank_portfolio")
        /\ WellClosed(http[i].io, <<>>)

\* the other exits: the empty-universe error of rank_portfolio, the early
\* return of auto_ingest_portfolio_data, the nested ranking that raises, and
\* a run of ingest_tickers whose task failed
C27_WitnessEmptyUniverse ==
    \E i \in DOMAIN calls :
        /\ calls[i].out.raised /\ calls[i].out.exc = NoDataError
        /\ calls[i].out.io # <<>>

C27_WitnessEarlyReturn ==
    \E i \in DOMAIN ingest :
        /\ ingest[i].tickers # <<>> /\ ~ingest[i].raised
        /\ tickers_to_fetch(ingest[i].tickers, ingest[i].force_refresh,
                            ingest[i].before) = <<>>
        /\ Opened(ingest[i].io, "auto_ingest_portfolio_data")

C27_WitnessNestedRanking ==
    \E i \in DOMAIN http :
        /\ http[i].response.status = 400
        /\ Opened(http[i].io, "rank_portfolio_with_auto_ingest")
        /\ Opened(http[i].io, "rank_portfolio")

C27_WitnessJob ==
    \E i \in DOMAIN job :
        /\ job[i].pc = "done"
        /\ \E k \in DOMAIN job[i].tasks : job[i].tasks[k].pc = "failed"

====
